---- MODULE Spec2Model ----
(***************************************************************************)
(* Model of the secureAuth orchestrator (services/auth.service.ts) over    *)
(* its file-backed repositories (storage/*.repository.ts).                 *)
(*                                                                         *)
(* The two record files users.txt and sessions.txt are sequences of        *)
(* records.  Every orchestrator call is a process that advances one file   *)
(* operation (readFile, writeFile, appendFile) at a time; the synchronous  *)
(* code between two awaits belongs to the step of the file operation that  *)
(* precedes it.  Times are epoch milliseconds; an ISO-8601 string carries  *)
(* exactly the millisecond value it was made from, so a timestamp is       *)
(* modelled by that number.  createdAt/updatedAt, ipHash and userAgent are *)
(* written but never read by any operation and are left out of the         *)
(* records.                                                                *)
(***************************************************************************)
EXTENDS Integers, Sequences, FiniteSets, TLC

\* ------------------------------------------------------------------ bounds
MaxUsers    == 2      \* user ids handed out by register
MaxSessions == 2      \* session ids handed out by login
MaxTicks    == 2      \* clock advances
MaxFails    == 1      \* failed logins counted per account where bounded
MaxCalls    == 5      \* calls begun in a run of overlapping calls

Procs == {1, 2}       \* orchestrator calls that may run at the same time
Unbounded == 1000000000

\* ------------------------------------------------------- program constants
MAX_FAILED      == 5
LOCK_MINUTES    == 15
DEFAULT_TTL_MIN == 60
SALT_ROUNDS     == 10
MS_PER_MIN      == 60000

\* The clock advances in steps of one lock period.
TickMs == LOCK_MINUTES * MS_PER_MIN

\* ------------------------------------------------------------------ strings
\* A string is the sequence of its characters.
WhiteSpace == {" "}
UpperChars == {"A", "B", "S", "O"}
LowerChars ==
  {"a", "b", "c", "e", "g", "l", "o", "r", "s", "t", "u", "v", "x", "y"}
DigitChars == {"0", "2", "3", "4"}

toLowerChar(c) ==
  CASE c = "A" -> "a"
    [] c = "B" -> "b"
    [] c = "S" -> "s"
    [] c = "O" -> "o"
    [] OTHER   -> c

toLowerCase(s) == [i \in 1..Len(s) |-> toLowerChar(s[i])]

RECURSIVE trimStart(_)
trimStart(s) ==
  IF s # <<>> /\ Head(s) \in WhiteSpace THEN trimStart(Tail(s)) ELSE s

RECURSIVE trimEnd(_)
trimEnd(s) ==
  IF s # <<>> /\ s[Len(s)] \in WhiteSpace
    THEN trimEnd(SubSeq(s, 1, Len(s) - 1))
    ELSE s

trim(s) == trimEnd(trimStart(s))

normalizeEmail(email) == toLowerCase(trim(email))

\* /^[^\s@]+@[^\s@]+\.[^\s@]+$/ : one "@", no white space, a non-empty local
\* part, and after the "@" a "." that is neither first nor last.
isValidEmail(email) ==
  LET s == normalizeEmail(email)
      ats == {i \in 1..Len(s) : s[i] = "@"}
  IN  /\ \A i \in 1..Len(s) : s[i] \notin WhiteSpace
      /\ Cardinality(ats) = 1
      /\ \E i \in ats :
           /\ i > 1
           /\ \E j \in (i + 2)..(Len(s) - 1) : s[j] = "."

\* validatePasswordStrength(pass).ok
isWordChar(c) == c \in UpperChars \cup LowerChars \cup DigitChars \cup {"_"}

validatePasswordStrength(pass) ==
  /\ ~(Len(pass) < 8)
  /\ \E i \in 1..Len(pass) : pass[i] \in LowerChars
  /\ \E i \in 1..Len(pass) : pass[i] \in UpperChars
  /\ \E i \in 1..Len(pass) : pass[i] \in DigitChars
  /\ \E i \in 1..Len(pass) : ~isWordChar(pass[i]) /\ pass[i] \notin WhiteSpace

\* ------------------------------------------------------------------ hasher
hashPassword(plain) == [plain |-> plain, rounds |-> SALT_ROUNDS]

verifyPassword(plain, hash) == hash.plain = plain

needsRehash(hash) == hash.rounds < SALT_ROUNDS

\* ------------------------------------------------------------ OTP provider
NoSecret == ""
Secrets == {"S1", "S2"}

\* The code the authenticator currently shows for a secret.
TotpOf(secret) == IF secret = "S1" THEN "c1" ELSE "c2"

\* A provider that accepts every code.
authenticatorVerify_any(token, secret) == TRUE

authenticatorVerify(token, secret) == token = TotpOf(secret)

\* ------------------------------------------------------------------ inputs
EmailA    == <<"a", "@", "x", ".", "y">>
EmailAUp  == <<" ", "A", "@", "x", ".", "y">>
EmailB    == <<"b", "@", "x", ".", "y">>
EmailBad  == <<"a", "x", ".", "y">>

PwGood  == <<"S", "3", "g", "u", "r", "a", "!", "2", "0", "2", "4">>
PwOther == <<"O", "t", "r", "4", "#", "c", "l", "a", "v", "e">>
PwWeak  == <<"a", "b", "c">>

NoOtp == ""

RegisterPasswords == {PwGood, PwWeak}
LoginPasswords    == {PwGood, PwOther}
OtpInputs         == {NoOtp, "c1", "c2"}
\* ttlMinutes: <<>> when the caller gives none, <<m>> otherwise
TtlInputs         == {<<>>, <<LOCK_MINUTES>>}

\* ------------------------------------------------- permissions and roles
\* A permission string is held as its split(':'), "user:read" as
\* <<"user", "read">>; a role name is held as its characters.
PERMISSIONS ==
  << <<"user", "create">>, <<"user", "read">>, <<"user", "update">>,
     <<"user", "delete">>, <<"user", "list">>,
     <<"role", "read">>, <<"role", "list">>, <<"role", "assign">>,
     <<"session", "read">>, <<"session", "list">>, <<"session", "invalidate">>,
     <<"mfa", "setup">>, <<"mfa", "verify">>,
     <<"auth", "login">>, <<"auth", "logout">>,
     <<"audit", "read">>,
     <<"oauth", "read">>, <<"oauth", "list">>, <<"oauth", "delete">> >>

VALID_RESOURCES == {"user", "role", "session", "mfa", "auth", "audit", "oauth"}

VALID_ACTIONS ==
  {"create", "read", "update", "delete", "assign", "verify", "setup",
   "login", "logout", "list", "invalidate", "rotate"}

ALL_PERMISSIONS_SET == {PERMISSIONS[i] : i \in DOMAIN PERMISSIONS}

\* const [res, act] = value.split(':') : the first two segments only
isPermission(value) ==
  LET res == IF Len(value) >= 1 THEN value[1] ELSE ""
      act == IF Len(value) >= 2 THEN value[2] ELSE ""
  IN  /\ res # "" /\ act # ""
      /\ res \in VALID_RESOURCES
      /\ \/ act = "*"
         \/ act \in VALID_ACTIONS /\ <<res, act>> \in ALL_PERMISSIONS_SET

\* What destructuring gives for a segment split(':') did not produce.
NoSegment == "<undefined>"

segment(value, i) == IF Len(value) >= i THEN value[i] ELSE NoSegment

\* permissionImplies without the wildcard: the action has to be the same.
permissionImplies_exact(grant, required) ==
  /\ segment(grant, 1) = segment(required, 1)
  /\ segment(grant, 2) = segment(required, 2)

permissionImplies(grant, required) ==
  LET gRes == segment(grant, 1)
      gAct == segment(grant, 2)
      rRes == segment(required, 1)
      rAct == segment(required, 2)
  IN  IF gRes # rRes THEN FALSE
      ELSE IF gAct = "*" THEN TRUE
      ELSE gAct = rAct

hasPermission(granted, required) ==
  \E i \in DOMAIN granted : permissionImplies(granted[i], required)

\* hasAllPermissions that is content with one of the required permissions.
hasAllPermissions_some(granted, requiredAll) ==
  \E i \in DOMAIN requiredAll : hasPermission(granted, requiredAll[i])

hasAllPermissions(granted, requiredAll) ==
  \A i \in DOMAIN requiredAll : hasPermission(granted, requiredAll[i])

hasAnyPermission(granted, requiredAny) ==
  \E i \in DOMAIN requiredAny : hasPermission(granted, requiredAny[i])

RoleAdmin   == <<"a", "d", "m", "i", "n">>
RoleAnalyst ==
  <<"s", "e", "c", "u", "r", "i", "t", "y", "-",
    "a", "n", "a", "l", "y", "s", "t">>
RoleSupport == <<"s", "u", "p", "p", "o", "r", "t">>
RoleUser    == <<"u", "s", "e", "r">>
RoleGuest   == <<"g", "u", "e", "s", "t">>

ROLE_PRESETS(name) ==
  CASE name = RoleAdmin ->
         << <<"user", "*">>, <<"role", "assign">>, <<"role", "read">>,
            <<"role", "list">>, <<"session", "list">>,
            <<"session", "invalidate">>, <<"mfa", "setup">>,
            <<"mfa", "verify">>, <<"auth", "login">>, <<"auth", "logout">>,
            <<"audit", "read">>, <<"oauth", "list">>, <<"oauth", "read">>,
            <<"oauth", "delete">> >>
    [] name = RoleAnalyst ->
         << <<"user", "read">>, <<"user", "list">>, <<"role", "read">>,
            <<"role", "list">>, <<"session", "list">>, <<"session", "read">>,
            <<"session", "invalidate">>, <<"audit", "read">> >>
    [] name = RoleSupport ->
         << <<"user", "read">>, <<"user", "list">>, <<"mfa", "verify">>,
            <<"auth", "login">>, <<"auth", "logout">> >>
    [] name = RoleUser ->
         << <<"auth", "login">>, <<"auth", "logout">>, <<"mfa", "setup">>,
            <<"mfa", "verify">>, <<"user", "read">>, <<"user", "update">> >>

isRoleName(name) == name \in {RoleAdmin, RoleAnalyst, RoleSupport, RoleUser}

getPresetPermissions(name) == IF isRoleName(name) THEN ROLE_PRESETS(name) ELSE <<>>

\* Array.from(new Set(s)) : the first occurrence of each element, in order
RECURSIVE uniqueInOrder(_)
uniqueInOrder(s) ==
  IF s = <<>> THEN <<>>
  ELSE LET front == uniqueInOrder(SubSeq(s, 1, Len(s) - 1))
           last  == s[Len(s)]
       IN  IF \E i \in DOMAIN front : front[i] = last
             THEN front ELSE Append(front, last)

RECURSIVE reverse(_)
reverse(s) == IF s = <<>> THEN <<>> ELSE Append(reverse(Tail(s)), Head(s))

\* normalizePermissions with the unlisted permissions in the reverse of the
\* order given.
normalizePermissions_lastFirst(perms) ==
  LET isValid(x)  == isPermission(x)
      unique      == uniqueInOrder(SelectSeq(perms, isValid))
      given(x)    == \E i \in DOMAIN unique : unique[i] = x
      unlisted(x) == x \notin ALL_PERMISSIONS_SET
  IN  SelectSeq(PERMISSIONS, given) \o reverse(SelectSeq(unique, unlisted))

\* The valid permissions, once each, in the order of PERMISSIONS; the ones
\* PERMISSIONS does not list (the wildcards) after them, in the order given.
normalizePermissions(perms) ==
  LET isValid(x)  == isPermission(x)
      unique      == uniqueInOrder(SelectSeq(perms, isValid))
      given(x)    == \E i \in DOMAIN unique : unique[i] = x
      unlisted(x) == x \notin ALL_PERMISSIONS_SET
  IN  SelectSeq(PERMISSIONS, given) \o SelectSeq(unique, unlisted)

\* trim, drop the empty names, drop the duplicates
normalizeRoles(roles) ==
  LET nonEmpty(r) == r # <<>>
  IN  uniqueInOrder(SelectSeq([i \in DOMAIN roles |-> trim(roles[i])], nonEmpty))

\* createRole({ name, extraPermissions }) without its description
createRole(name, extraPermissions) ==
  [name |-> name,
   permissions |->
     normalizePermissions(getPresetPermissions(name) \o extraPermissions)]

RECURSIVE concat(_)
concat(seqs) == IF seqs = <<>> THEN <<>> ELSE Head(seqs) \o concat(Tail(seqs))

\* An input of mergeRolesPermissions is a Role or a list of strings; the
\* list is held as [items |-> list].
isRole(x) == "permissions" \in DOMAIN x

mergeRolesPermissions(inputs) ==
  normalizePermissions(
    concat([i \in DOMAIN inputs |->
              IF isRole(inputs[i]) THEN inputs[i].permissions
                                   ELSE inputs[i].items]))

\* getEffectivePermissions that looks a name up in the presets before it
\* looks it up in the catalog.
getEffectivePermissions_presetFirst(user, roleCatalog) ==
  LET catalog == IF roleCatalog = <<>> THEN <<>> ELSE roleCatalog[1]
      found(name) == {k \in DOMAIN catalog : catalog[k].name = name}
      find(name) ==
        catalog[CHOOSE k \in found(name) : \A j \in found(name) : k <= j]
      fromCatalog(name) ==
        IF isRoleName(name) THEN <<createRole(name, <<>>)>>
        ELSE IF found(name) # {} THEN <<find(name)>>
        ELSE <<>>
      fromPresets(name) ==
        IF isRoleName(name) THEN <<createRole(name, <<>>)>>
        ELSE <<[name |-> name, permissions |-> <<>>]>>
      rolesFromCatalog ==
        concat([i \in DOMAIN user.roles |->
                  IF catalog # <<>> THEN fromCatalog(user.roles[i])
                                    ELSE fromPresets(user.roles[i])])
  IN  mergeRolesPermissions(
        rolesFromCatalog \o <<[items |-> user.extraPermissions]>>)

\* getEffectivePermissions; roleCatalog is <<>> when the caller gives none,
\* <<catalog>> otherwise.
getEffectivePermissions(user, roleCatalog) ==
  LET catalog == IF roleCatalog = <<>> THEN <<>> ELSE roleCatalog[1]
      found(name) == {k \in DOMAIN catalog : catalog[k].name = name}
      find(name) ==
        catalog[CHOOSE k \in found(name) : \A j \in found(name) : k <= j]
      fromCatalog(name) ==
        IF found(name) # {} THEN <<find(name)>>
        ELSE IF isRoleName(name) THEN <<createRole(name, <<>>)>>
        ELSE <<>>
      fromPresets(name) ==
        IF isRoleName(name) THEN <<createRole(name, <<>>)>>
        ELSE <<[name |-> name, permissions |-> <<>>]>>
      rolesFromCatalog ==
        concat([i \in DOMAIN user.roles |->
                  IF catalog # <<>> THEN fromCatalog(user.roles[i])
                                    ELSE fromPresets(user.roles[i])])
  IN  mergeRolesPermissions(
        rolesFromCatalog \o <<[items |-> user.extraPermissions]>>)

\* ------------------------------------------------------- authorization
userHasAll(user, requiredAll, roleCatalog) ==
  hasAllPermissions(getEffectivePermissions(user, roleCatalog), requiredAll)

userHasAny(user, requiredAny, roleCatalog) ==
  hasAnyPermission(getEffectivePermissions(user, roleCatalog), requiredAny)

\* What an assertion leaves: nothing, or the Error it threw, whose message
\* is held as its fixed text and the list it joins.
NoError == [threw |-> FALSE, text |-> "", list |-> <<>>]

assertAllPermissions(user, requiredAll, roleCatalog) ==
  IF ~userHasAll(user, requiredAll, roleCatalog)
    THEN [threw |-> TRUE, text |-> "Permisos insuficientes. Requiere: ",
          list |-> requiredAll]
    ELSE NoError

assertAnyPermission(user, requiredAny, roleCatalog) ==
  IF ~userHasAny(user, requiredAny, roleCatalog)
    THEN [threw |-> TRUE,
          text |-> "Permisos insuficientes. Requiere alguno de: ",
          list |-> requiredAny]
    ELSE NoError

\* What register is given as roles and extraPermissions: <<>> when the caller
\* gives none, <<list>> otherwise.
NoGrant == [roles |-> <<>>, extraPermissions |-> <<>>]

GrantInputs ==
  {NoGrant,
   [roles |-> << <<>> >>, extraPermissions |-> <<>>],
   [roles |-> << << <<" ">> \o RoleAdmin, RoleGuest, RoleAdmin, <<" ">>,
                    RoleSupport >> >>,
    extraPermissions |->
      << << <<"audit", "read">>, <<"session", "*">>, <<"audit", "read">>,
            <<"user", "fly">>, <<"user", "read", "x">>, <<"db", "*">>,
            <<"session">>, <<"session", "read">> >> >>]}

\* --------------------------------------------------------------- records
NoTime == -1

NoCodes == <<>>

NoUser ==
  [id |-> 0, email |-> <<>>, passHash |-> [plain |-> <<>>, rounds |-> 0],
   roles |-> <<>>, extraPermissions |-> <<>>,
   mfaEnabled |-> FALSE, mfaSecret |-> NoSecret, recoveryCodes |-> NoCodes,
   failedLoginAttempts |-> 0, lockedUntil |-> 0]

NoSession ==
  [id |-> 0, userId |-> 0, issuedAt |-> 0, expiresAt |-> 0,
   lastUsedAt |-> 0, revokedAt |-> NoTime]

createUser(id, email, passHash, roles, extraPermissions) ==
  [id |-> id, email |-> normalizeEmail(email), passHash |-> passHash,
   roles |-> normalizeRoles(roles),
   extraPermissions |-> normalizePermissions(extraPermissions),
   mfaEnabled |-> FALSE, mfaSecret |-> NoSecret, recoveryCodes |-> NoCodes,
   failedLoginAttempts |-> 0, lockedUntil |-> 0]

\* toPublicUser with the password hash left in.
toPublicUser_withHash(u) ==
  [id |-> u.id, email |-> u.email, passHash |-> u.passHash, roles |-> u.roles,
   permissions |-> getEffectivePermissions(u, <<>>), mfaEnabled |-> u.mfaEnabled]

toPublicUser(u) ==
  [id |-> u.id, email |-> u.email, roles |-> u.roles,
   permissions |-> getEffectivePermissions(u, <<>>), mfaEnabled |-> u.mfaEnabled]

\* createSession that leaves the owner out.
createSession_noOwner(id, userId, ttlMinutes, at) ==
  [id |-> id, userId |-> 0, issuedAt |-> at,
   expiresAt |-> at + ttlMinutes * MS_PER_MIN,
   lastUsedAt |-> at, revokedAt |-> NoTime]

createSession(id, userId, ttlMinutes, at) ==
  [id |-> id, userId |-> userId, issuedAt |-> at,
   expiresAt |-> at + ttlMinutes * MS_PER_MIN,
   lastUsedAt |-> at, revokedAt |-> NoTime]

\* revokeSession that also stamps the last use.
revokeSession_touch(s, when) ==
  [s EXCEPT !.revokedAt = when, !.lastUsedAt = when]

revokeSession(s, when) == [s EXCEPT !.revokedAt = when]

\* isExpired that lets the instant of expiry count as unexpired.
isExpired_strict(s, at) == s.expiresAt < at

isExpired(s, at) == s.expiresAt <= at

\* isActive that looks at the expiry only.
isActive_expiryOnly(s, at) == ~isExpired(s, at)

isActive(s, at) == s.revokedAt = NoTime /\ ~isExpired(s, at)

toPublicSession(s, at) ==
  [id |-> s.id, userId |-> s.userId, issuedAt |-> s.issuedAt,
   expiresAt |-> s.expiresAt, lastUsedAt |-> s.lastUsedAt,
   isActive |-> isActive(s, at)]

\* ------------------------------------------------------------------- state
VARIABLES
  users,      \* users.txt: the stored user records, in file order
  sessions,   \* sessions.txt: the stored session records, in file order
  now,        \* the clock (epoch ms)
  nextUid,    \* randomUUID() for users: the next unused id
  nextSid,    \* randomUUID() for sessions: the next unused id
  proc,       \* per process: the call in flight and its local variables
  calls,      \* calls begun so far, in the runs that bound them
  env,        \* the callers of the run: who calls, with which inputs, how
              \* often (set by Init, never changed)
  calc,       \* the last call of a function of the permission domain: its
              \* name, its arguments and what it returned
  audit       \* logs/audit.log: the audit facts, in file order

vars == <<users, sessions, now, nextUid, nextSid, proc, calls, env, calc, audit>>

NoCalc == [fn |-> "none", args |-> <<>>, out |-> <<>>]

Idle ==
  [pc |-> "idle", op |-> "none", email |-> <<>>, password |-> <<>>,
   otpCode |-> NoOtp, ttl |-> <<>>, id |-> 0,
   user |-> NoUser, sess |-> NoSession, lines |-> <<>>,
   pending |-> "", result |-> "", ret |-> <<>>]

\* A caller is free once its call is over: for a command of the CLI, once the
\* command has left its try/catch as well.
Free(p) == proc[p].pc \in (IF env.cli THEN {"idle", "exit"} ELSE {"idle", "done"})

\* A caller begins a call.
Begin(p) ==
  /\ p \in env.procs
  /\ Free(p)
  /\ calls < env.maxCalls
  /\ calls' = IF env.maxCalls = Unbounded THEN calls ELSE calls + 1

Continue(p, pc) == proc[p].pc = pc /\ UNCHANGED calls

\* A finished call leaves its name, its subject (email or id; for mfaVerify
\* the code and for register the password as well) and its outcome behind for
\* the caller, in the runs that observe outcomes.
Finish(p, call, result) ==
  proc' = [proc EXCEPT ![p] =
             IF env.observe
               THEN [Idle EXCEPT !.pc = "done", !.op = call.op,
                                 !.email = call.email, !.id = call.id,
                                 !.otpCode = IF call.op = "mfaVerify"
                                               THEN call.otpCode ELSE NoOtp,
                                 !.password = IF call.op = "register"
                                                THEN call.password ELSE <<>>,
                                 !.result = result]
               ELSE Idle]

\* A call that returns a value leaves it behind as well, in the runs that
\* observe returned values.
Return(p, call, result, value) ==
  proc' = [proc EXCEPT ![p] =
             IF env.observe
               THEN [Idle EXCEPT !.pc = "done", !.op = call.op,
                                 !.email = call.email, !.id = call.id,
                                 !.password = IF call.op = "register"
                                                THEN call.password ELSE <<>>,
                                 !.result = result,
                                 !.ret = IF env.views THEN <<value>> ELSE <<>>]
               ELSE Idle]

Goto(p, call, pc) == proc' = [proc EXCEPT ![p] = [call EXCEPT !.pc = pc]]

\* ------------------------------------------------------------ repositories
\* users.find(u => u.id === id) ?? null
getUserById(file, id) ==
  IF \E i \in DOMAIN file : file[i].id = id
    THEN file[CHOOSE i \in DOMAIN file :
                /\ file[i].id = id
                /\ \A j \in DOMAIN file : file[j].id = id => i <= j]
    ELSE NoUser

\* getUserByEmail: null for an invalid address, else the first record whose
\* normalized email is the normalized target.
getUserByEmail(file, email) ==
  LET target == normalizeEmail(email)
      hits == {i \in DOMAIN file : normalizeEmail(file[i].email) = target}
  IN  IF ~isValidEmail(target) \/ hits = {}
        THEN NoUser
        ELSE file[CHOOSE i \in hits : \A j \in hits : i <= j]

getSessionById(file, id) ==
  IF \E i \in DOMAIN file : file[i].id = id
    THEN file[CHOOSE i \in DOMAIN file :
                /\ file[i].id = id
                /\ \A j \in DOMAIN file : file[j].id = id => i <= j]
    ELSE NoSession

\* The lines to write without the comparison of ids: every record replaced.
replaceById_all(file, updated) == [i \in DOMAIN file |-> updated]

\* The lines updateUser / updateSession will write: the file as read, with
\* every record of the updated id replaced.
replaceById(file, updated) ==
  [i \in DOMAIN file |-> IF file[i].id = updated.id THEN updated ELSE file[i]]

foundById(file, updated) == \E i \in DOMAIN file : file[i].id = updated.id

InitStore ==
  /\ users = <<>>
  /\ sessions = <<>>
  /\ now = 0
  /\ nextUid = 1
  /\ nextSid = 1
  /\ proc = [p \in Procs |-> Idle]
  /\ calls = 0
  /\ calc = NoCalc
  /\ audit = <<>>

\* ------------------------------------------------------------------- clock
Tick ==
  /\ now < env.maxTicks * TickMs
  /\ now' = now + TickMs
  /\ UNCHANGED <<users, sessions, nextUid, nextSid, proc, calls, env, calc, audit>>


\* ---------------------------------------------------------------- register
\* registerUser up to its call of addUser: validation, the duplicate check
\* against users.txt, hashing and createUser.
\* registerUser with the duplicate check first and the email check last.
registerUser_takenFirst(p, rawEmail, password, roles, extraPermissions) ==
  LET email == normalizeEmail(rawEmail)
      call  == [Idle EXCEPT !.op = "register", !.email = email,
                            !.password = password]
  IN  /\ Begin(p)
      /\ UNCHANGED <<users, sessions, now, nextSid, env, calc, audit>>
      /\ IF getUserByEmail(users, email) # NoUser
           THEN Finish(p, call, "EMAIL_TAKEN") /\ UNCHANGED nextUid
         ELSE IF ~validatePasswordStrength(password)
           THEN Finish(p, call, "WEAK_PASSWORD") /\ UNCHANGED nextUid
         ELSE IF ~isValidEmail(email)
           THEN Finish(p, call, "INVALID_EMAIL") /\ UNCHANGED nextUid
         ELSE /\ nextUid <= env.maxUsers
              /\ nextUid' = nextUid + 1
              /\ Goto(p, [call EXCEPT !.user =
                            createUser(nextUid, email, hashPassword(password),
                                       IF roles = <<>> THEN <<RoleUser>>
                                                       ELSE roles[1],
                                       IF extraPermissions = <<>> THEN <<>>
                                         ELSE extraPermissions[1])],
                      "r_check")

registerUser(p, rawEmail, password, roles, extraPermissions) ==
  LET email == normalizeEmail(rawEmail)
      call  == [Idle EXCEPT !.op = "register", !.email = email,
                            !.password = password]
  IN  /\ Begin(p)
      /\ UNCHANGED <<users, sessions, now, nextSid, env, calc, audit>>
      /\ IF ~isValidEmail(email)
           THEN Finish(p, call, "INVALID_EMAIL") /\ UNCHANGED nextUid
         ELSE IF ~validatePasswordStrength(password)
           THEN Finish(p, call, "WEAK_PASSWORD") /\ UNCHANGED nextUid
         ELSE IF getUserByEmail(users, email) # NoUser
           THEN Finish(p, call, "EMAIL_TAKEN") /\ UNCHANGED nextUid
         ELSE /\ nextUid <= env.maxUsers
              /\ nextUid' = nextUid + 1
              /\ Goto(p, [call EXCEPT !.user =
                            createUser(nextUid, email, hashPassword(password),
                                       IF roles = <<>> THEN <<RoleUser>>
                                                       ELSE roles[1],
                                       IF extraPermissions = <<>> THEN <<>>
                                         ELSE extraPermissions[1])],
                      "r_check")

\* addUser: the second duplicate check, on a fresh read of users.txt
addUserCheck(p) ==
  /\ Continue(p, "r_check")
  /\ UNCHANGED <<users, sessions, now, nextUid, nextSid, env, calc, audit>>
  /\ IF getUserByEmail(users, proc[p].user.email) # NoUser
       THEN Finish(p, proc[p], "EMAIL_ALREADY_EXISTS")
       ELSE Goto(p, proc[p], "r_append")

\* addUser: appendLine(USERS_FILE, ...), then registerUser returns
addUserAppend(p) ==
  /\ Continue(p, "r_append")
  /\ users' = Append(users, proc[p].user)
  /\ Return(p, proc[p], "OK", [user |-> toPublicUser(proc[p].user)])
  /\ UNCHANGED <<sessions, now, nextUid, nextSid, env, calc, audit>>

\* ------------------------------------------------------------------- login
\* The lockout check with its comparison turned round.
isLocked_whenExpired(user, at) ==
  user.lockedUntil # 0 /\ user.lockedUntil > 0 /\ user.lockedUntil < at

\* The lockout check that still holds at the instant the window ends.
isLocked_atBoundary(user, at) ==
  user.lockedUntil # 0 /\ user.lockedUntil > 0 /\ user.lockedUntil >= at

isLocked(user, at) ==
  user.lockedUntil # 0 /\ user.lockedUntil > 0 /\ user.lockedUntil > at

\* bumpFailed locking one failure late.
bumpFailed_late(user, at) ==
  LET fails == user.failedLoginAttempts + 1
  IN  [user EXCEPT !.failedLoginAttempts = fails,
                   !.lockedUntil = IF fails > MAX_FAILED
                                     THEN at + LOCK_MINUTES * MS_PER_MIN
                                     ELSE @]

\* bumpFailed with a lock that ends as it starts.
bumpFailed_noWindow(user, at) ==
  LET fails == user.failedLoginAttempts + 1
  IN  [user EXCEPT !.failedLoginAttempts = fails,
                   !.lockedUntil = IF fails >= MAX_FAILED THEN at ELSE @]

\* bumpFailed, up to its call of updateUser
bumpFailed(user, at) ==
  LET fails == user.failedLoginAttempts + 1
  IN  [user EXCEPT !.failedLoginAttempts = fails,
                   !.lockedUntil = IF fails >= MAX_FAILED
                                     THEN at + LOCK_MINUTES * MS_PER_MIN
                                     ELSE @]

\* verifyTotp without the provider: any code passes once a secret is stored.
verifyTotp_anyCode(user, code) == user.mfaSecret # NoSecret

verifyTotp(user, code) ==
  IF user.mfaSecret = NoSecret THEN FALSE
  ELSE authenticatorVerify(code, user.mfaSecret)

\* A login that will pass the password check and the MFA gate on the record it
\* read, and the calls in flight that will take a session id.
WillIssue(call) ==
  /\ verifyPassword(call.password, call.user.passHash)
  /\ call.user.mfaEnabled => verifyTotp(call.user, call.otpCode)

Issuing ==
  {q \in Procs :
     /\ proc[q].op = "login"
     /\ \/ proc[q].pc = "l_verify" /\ WillIssue(proc[q])
        \/ proc[q].pc \in {"u_read", "u_write"} /\ proc[q].pending = ""}

\* loginUser: getUserByEmail and the lockout check
loginRead(p, rawEmail, password, otpCode, ttl) ==
  LET email == normalizeEmail(rawEmail)
      user  == getUserByEmail(users, email)
      call  == [Idle EXCEPT !.op = "login", !.email = email,
                            !.password = password, !.otpCode = otpCode,
                            !.ttl = ttl]
  IN  /\ Begin(p)
      /\ UNCHANGED <<users, sessions, now, nextUid, nextSid, env, calc, audit>>
      /\ IF user = NoUser
           THEN Finish(p, call, "USER_NOT_FOUND")
         ELSE IF isLocked(user, now)
           THEN Finish(p, [call EXCEPT !.user = user], "ACCOUNT_LOCKED")
         ELSE /\ WillIssue([call EXCEPT !.user = user])
                   => nextSid + Cardinality(Issuing) <= env.maxSessions
              /\ ~WillIssue([call EXCEPT !.user = user])
                   => user.failedLoginAttempts < env.maxFails
              /\ Goto(p, [call EXCEPT !.user = user], "l_verify")

\* loginUser that lets a rejected code go uncounted: the record is written
\* back as read.
loginVerify_mfaUncounted(p) ==
  LET call == proc[p]
      user == call.user
      rehashed == IF needsRehash(user.passHash)
                    THEN [user EXCEPT !.passHash = hashPassword(call.password)]
                    ELSE user
  IN  /\ Continue(p, "l_verify")
      /\ UNCHANGED <<users, sessions, now, nextUid, nextSid, env, calc, audit>>
      /\ IF ~verifyPassword(call.password, user.passHash)
           THEN Goto(p, [call EXCEPT !.user = bumpFailed(user, now),
                                     !.pending = "INVALID_CREDENTIALS"],
                     "u_read")
         ELSE IF rehashed.mfaEnabled /\ call.otpCode = NoOtp
           THEN Finish(p, [call EXCEPT !.user = rehashed], "MFA_REQUIRED")
         ELSE IF rehashed.mfaEnabled /\ ~verifyTotp(rehashed, call.otpCode)
           THEN Goto(p, [call EXCEPT !.user = rehashed,
                                     !.pending = "MFA_INVALID"],
                     "u_read")
         ELSE Goto(p, [call EXCEPT !.user =
                         [rehashed EXCEPT !.failedLoginAttempts = 0,
                                          !.lockedUntil = 0]],
                   "u_read")

\* loginUser that asks for the MFA code before it looks at the password.
loginVerify_mfaFirst(p) ==
  LET call == proc[p]
      user == call.user
      rehashed == IF needsRehash(user.passHash)
                    THEN [user EXCEPT !.passHash = hashPassword(call.password)]
                    ELSE user
  IN  /\ Continue(p, "l_verify")
      /\ UNCHANGED <<users, sessions, now, nextUid, nextSid, env, calc, audit>>
      /\ IF user.mfaEnabled /\ call.otpCode = NoOtp
           THEN Finish(p, call, "MFA_REQUIRED")
         ELSE IF ~verifyPassword(call.password, user.passHash)
           THEN Goto(p, [call EXCEPT !.user = bumpFailed(user, now),
                                     !.pending = "INVALID_CREDENTIALS"],
                     "u_read")
         ELSE IF rehashed.mfaEnabled /\ ~verifyTotp(rehashed, call.otpCode)
           THEN Goto(p, [call EXCEPT !.user = bumpFailed(rehashed, now),
                                     !.pending = "MFA_INVALID"],
                     "u_read")
         ELSE Goto(p, [call EXCEPT !.user =
                         [rehashed EXCEPT !.failedLoginAttempts = 0,
                                          !.lockedUntil = 0]],
                   "u_read")

\* loginUser after verifyPassword resolves: the bad-password bump, the
\* re-hash, the MFA gate and the reset of the counters, up to updateUser.
loginVerify(p) ==
  LET call == proc[p]
      user == call.user
      rehashed == IF needsRehash(user.passHash)
                    THEN [user EXCEPT !.passHash = hashPassword(call.password)]
                    ELSE user
  IN  /\ Continue(p, "l_verify")
      /\ UNCHANGED <<users, sessions, now, nextUid, nextSid, env, calc, audit>>
      /\ IF ~verifyPassword(call.password, user.passHash)
           THEN Goto(p, [call EXCEPT !.user = bumpFailed(user, now),
                                     !.pending = "INVALID_CREDENTIALS"],
                     "u_read")
         ELSE IF rehashed.mfaEnabled /\ call.otpCode = NoOtp
           THEN Finish(p, [call EXCEPT !.user = rehashed], "MFA_REQUIRED")
         ELSE IF rehashed.mfaEnabled /\ ~verifyTotp(rehashed, call.otpCode)
           THEN Goto(p, [call EXCEPT !.user = bumpFailed(rehashed, now),
                                     !.pending = "MFA_INVALID"],
                     "u_read")
         ELSE Goto(p, [call EXCEPT !.user =
                         [rehashed EXCEPT !.failedLoginAttempts = 0,
                                          !.lockedUntil = 0]],
                   "u_read")

\* appendSession, then loginUser returns
loginAppend(p) ==
  /\ Continue(p, "l_append")
  /\ sessions' = Append(sessions, proc[p].sess)
  /\ Return(p, proc[p], "OK",
            [session |-> toPublicSession(proc[p].sess, now)])
  /\ UNCHANGED <<users, now, nextUid, nextSid, env, calc, audit>>

\* -------------------------------------------------------------- updateUser
\* updateUser: listUsers and the lines to write
updateUserRead(p) ==
  /\ Continue(p, "u_read")
  /\ UNCHANGED <<users, sessions, now, nextUid, nextSid, env, calc, audit>>
  /\ IF ~foundById(users, proc[p].user)
       THEN Finish(p, proc[p], "STORE_USER_NOT_FOUND")
       ELSE Goto(p, [proc[p] EXCEPT !.lines = replaceById(users, proc[p].user)],
                 "u_write")

\* updateUser: writeLines, then the caller's code up to its next await
updateUserWrite(p) ==
  LET call == proc[p]
      ttlMinutes == IF call.ttl = <<>> THEN DEFAULT_TTL_MIN ELSE call.ttl[1]
  IN  /\ Continue(p, "u_write")
      /\ users' = call.lines
      /\ UNCHANGED <<sessions, now, nextUid, env, calc, audit>>
      /\ IF call.op = "login" /\ call.pending = ""
           THEN /\ nextSid' = nextSid + 1
                /\ Goto(p, [call EXCEPT
                              !.sess = createSession(nextSid, call.user.id,
                                                     ttlMinutes, now),
                              !.lines = <<>>],
                        "l_append")
         ELSE /\ UNCHANGED nextSid
              /\ Finish(p, call, IF call.op = "login" THEN call.pending
                                 ELSE IF call.op = "mfaVerify" THEN "TRUE"
                                 ELSE "OK")

\* ------------------------------------------------------------------ logout
\* logoutSession: getSessionById, the two checks and revokeSession
logoutRead(p, sessionId) ==
  LET s == getSessionById(sessions, sessionId)
      call == [Idle EXCEPT !.op = "logout", !.id = sessionId]
  IN  /\ Begin(p)
      /\ UNCHANGED <<users, sessions, now, nextUid, nextSid, env, calc, audit>>
      /\ IF s = NoSession
           THEN Finish(p, call, "SESSION_NOT_FOUND")
         ELSE IF ~isActive(s, now)
           THEN Finish(p, [call EXCEPT !.sess = s], "SESSION_INACTIVE")
         ELSE Goto(p, [call EXCEPT !.sess = revokeSession(s, now)], "s_read")

\* updateSession: listSessions and the lines to write
updateSessionRead(p) ==
  /\ Continue(p, "s_read")
  /\ UNCHANGED <<users, sessions, now, nextUid, nextSid, env, calc, audit>>
  /\ IF ~foundById(sessions, proc[p].sess)
       THEN Finish(p, proc[p], "STORE_SESSION_NOT_FOUND")
       ELSE Goto(p, [proc[p] EXCEPT
                       !.lines = replaceById(sessions, proc[p].sess)],
                 "s_write")

\* updateSession: writeLines, then logoutSession returns
updateSessionWrite(p) ==
  /\ Continue(p, "s_write")
  /\ sessions' = proc[p].lines
  /\ Finish(p, proc[p], "OK")
  /\ UNCHANGED <<users, now, nextUid, nextSid, env, calc, audit>>

\* --------------------------------------------------------------------- MFA
\* setupMfa that switches MFA on as soon as the secret is stored.
setupMfa_enable(p, userId) ==
  LET user == getUserById(users, userId)
      call == [Idle EXCEPT !.op = "mfaSetup", !.id = userId]
  IN  /\ Begin(p)
      /\ UNCHANGED <<users, sessions, now, nextUid, nextSid, env, calc, audit>>
      /\ IF user = NoUser
           THEN Finish(p, call, "USER_NOT_FOUND")
           ELSE \E secret \in env.secrets :
                  Goto(p, [call EXCEPT !.user =
                             [user EXCEPT !.mfaSecret = secret,
                                          !.mfaEnabled = TRUE]],
                       "u_read")

\* setupMfa: getUserById and the fresh secret, up to updateUser
setupMfa(p, userId) ==
  LET user == getUserById(users, userId)
      call == [Idle EXCEPT !.op = "mfaSetup", !.id = userId]
  IN  /\ Begin(p)
      /\ UNCHANGED <<users, sessions, now, nextUid, nextSid, env, calc, audit>>
      /\ IF user = NoUser
           THEN Finish(p, call, "USER_NOT_FOUND")
           ELSE \E secret \in env.secrets :
                  Goto(p, [call EXCEPT !.user =
                             [user EXCEPT !.mfaSecret = secret,
                                          !.mfaEnabled = FALSE]],
                       "u_read")

\* verifyMfa that enables MFA whatever the code.
verifyMfa_anyCode(p, userId, code) ==
  LET user == getUserById(users, userId)
      call == [Idle EXCEPT !.op = "mfaVerify", !.id = userId,
                            !.otpCode = code]
  IN  /\ Begin(p)
      /\ UNCHANGED <<users, sessions, now, nextUid, nextSid, env, calc, audit>>
      /\ IF user = NoUser
           THEN Finish(p, call, "USER_NOT_FOUND")
         ELSE IF user.mfaSecret = NoSecret
           THEN Finish(p, [call EXCEPT !.user = user], "MFA_NOT_ENABLED")
         ELSE Goto(p, [call EXCEPT !.user = [user EXCEPT !.mfaEnabled = TRUE]],
                   "u_read")

\* verifyMfa: getUserById and the code check, up to updateUser
\* verifyMfa that counts a rejected code as a failed attempt.
verifyMfa_counted(p, userId, code) ==
  LET user == getUserById(users, userId)
      call == [Idle EXCEPT !.op = "mfaVerify", !.id = userId,
                            !.otpCode = code]
  IN  /\ Begin(p)
      /\ UNCHANGED <<users, sessions, now, nextUid, nextSid, env, calc, audit>>
      /\ IF user = NoUser
           THEN Finish(p, call, "USER_NOT_FOUND")
         ELSE IF user.mfaSecret = NoSecret
           THEN Finish(p, [call EXCEPT !.user = user], "MFA_NOT_ENABLED")
         ELSE IF authenticatorVerify(code, user.mfaSecret)
           THEN Goto(p, [call EXCEPT !.user = [user EXCEPT !.mfaEnabled = TRUE]],
                     "u_read")
         ELSE Goto(p, [call EXCEPT !.user = bumpFailed(user, now)], "u_read")

verifyMfa(p, userId, code) ==
  LET user == getUserById(users, userId)
      call == [Idle EXCEPT !.op = "mfaVerify", !.id = userId,
                            !.otpCode = code]
  IN  /\ Begin(p)
      /\ UNCHANGED <<users, sessions, now, nextUid, nextSid, env, calc, audit>>
      /\ IF user = NoUser
           THEN Finish(p, call, "USER_NOT_FOUND")
         ELSE IF user.mfaSecret = NoSecret
           THEN Finish(p, [call EXCEPT !.user = user], "MFA_NOT_ENABLED")
         ELSE IF authenticatorVerify(code, user.mfaSecret)
           THEN Goto(p, [call EXCEPT !.user = [user EXCEPT !.mfaEnabled = TRUE]],
                     "u_read")
         ELSE Finish(p, [call EXCEPT !.user = user], "FALSE")

\* ----------------------------------------------------------- specification
UserIds    == 1..MaxUsers
SessionIds == 1..MaxSessions
VerifyCodes == OtpInputs \ {NoOtp}

Step(p) ==
  \/ \E e \in env.emails, pw \in RegisterPasswords, g \in env.grants :
        registerUser(p, e, pw, g.roles, g.extraPermissions)
  \/ addUserCheck(p)
  \/ addUserAppend(p)
  \/ \E e \in env.emails, pw \in LoginPasswords, otp \in env.otps,
        ttl \in env.ttls : loginRead(p, e, pw, otp, ttl)
  \/ loginVerify(p)
  \/ updateUserRead(p)
  \/ updateUserWrite(p)
  \/ loginAppend(p)
  \/ \E sid \in SessionIds : logoutRead(p, sid)
  \/ updateSessionRead(p)
  \/ updateSessionWrite(p)
  \/ \E uid \in UserIds : setupMfa(p, uid)
  \/ \E uid \in UserIds, code \in VerifyCodes : verifyMfa(p, uid, code)

Next == Tick \/ \E p \in Procs : Step(p)

\* Calls that overlap: two callers, two accounts, a bounded number of calls.
ConcEnv ==
  [procs |-> Procs, observe |-> FALSE, views |-> FALSE,
   emails |-> {EmailA, EmailB},
   cli |-> FALSE, grants |-> {NoGrant},
   otps |-> {NoOtp, "c1"}, ttls |-> {<<>>}, secrets |-> {"S1"},
   maxUsers |-> MaxUsers, maxSessions |-> MaxSessions, maxTicks |-> 1,
   maxFails |-> MaxFails, maxCalls |-> MaxCalls]

Init == InitStore /\ env = ConcEnv

Spec == Init /\ [][Next]_vars

\* One call at a time, one account: the lockout and the MFA gate in full.
SeqEnv ==
  [procs |-> {1}, observe |-> TRUE, views |-> FALSE,
   emails |-> {EmailA, EmailAUp, EmailBad},
   cli |-> FALSE, grants |-> {NoGrant},
   otps |-> OtpInputs, ttls |-> TtlInputs, secrets |-> Secrets,
   maxUsers |-> 1, maxSessions |-> 1, maxTicks |-> MaxTicks,
   maxFails |-> Unbounded, maxCalls |-> Unbounded]

SeqInit == InitStore /\ env = SeqEnv

SeqSpec == SeqInit /\ [][Next]_vars

\* One call at a time, one account and several sessions, each living two
\* clock advances.
SessEnv ==
  [procs |-> {1}, observe |-> TRUE, views |-> FALSE,
   emails |-> {EmailA},
   cli |-> FALSE, grants |-> {NoGrant},
   otps |-> {NoOtp, "c1"}, ttls |-> {<<2 * LOCK_MINUTES>>}, secrets |-> {"S1"},
   maxUsers |-> MaxUsers, maxSessions |-> MaxSessions, maxTicks |-> MaxTicks,
   maxFails |-> MaxFails, maxCalls |-> Unbounded]

SessInit == InitStore /\ env = SessEnv

SessSpec == SessInit /\ [][Next]_vars

\* ------------------------------------------------ a session as a value
\* createSession, revokeSession and isActive applied to one session, with the
\* clock moving a minute at a time.
MaxMinutes == 32     \* minutes the clock runs after the session is created

SessionTtls   == {1, 30}
SessionStarts == {0, MS_PER_MIN}

SessionInit ==
  /\ \E ttl \in SessionTtls, at \in SessionStarts :
       /\ sessions = <<createSession(1, 1, ttl, at)>>
       /\ now = at
  /\ users = <<>>
  /\ nextUid = 1
  /\ nextSid = 2
  /\ proc = [p \in Procs |-> Idle]
  /\ calls = 0
  /\ env = SessEnv
  /\ calc = NoCalc
  /\ audit = <<>>

\* at = new Date(), a minute later
SessionClock ==
  /\ now < sessions[1].issuedAt + MaxMinutes * MS_PER_MIN
  /\ now' = now + MS_PER_MIN
  /\ UNCHANGED <<users, sessions, nextUid, nextSid, proc, calls, env, calc, audit>>

\* revokeSession(s) on the session
SessionRevoke ==
  /\ sessions[1].revokedAt = NoTime
  /\ sessions' = <<revokeSession(sessions[1], now)>>
  /\ UNCHANGED <<users, now, nextUid, nextSid, proc, calls, env, calc, audit>>

SessionNext == SessionClock \/ SessionRevoke

SessionSpec == SessionInit /\ [][SessionNext]_vars

\* One call at a time, returned values observed: one account, no failed
\* login, every kind of --ttl value.
ViewTtls == {<<>>, <<2 * LOCK_MINUTES>>, <<0>>, <<-LOCK_MINUTES>>}

ViewEnv ==
  [procs |-> {1}, observe |-> TRUE, views |-> TRUE,
   emails |-> {EmailA},
   cli |-> FALSE, grants |-> {NoGrant},
   otps |-> {NoOtp}, ttls |-> ViewTtls, secrets |-> {"S1"},
   maxUsers |-> MaxUsers, maxSessions |-> MaxSessions, maxTicks |-> 1,
   maxFails |-> 0, maxCalls |-> Unbounded]

ViewInit == InitStore /\ env = ViewEnv

ViewSpec == ViewInit /\ [][Next]_vars

\* ---------------------------------------------------------- registrations
\* One call at a time, two accounts, every way of giving roles and extra
\* permissions, and what register returns.
RegEnv ==
  [procs |-> {1}, observe |-> TRUE, views |-> TRUE,
   emails |-> {EmailA, EmailB},
   cli |-> FALSE, grants |-> GrantInputs,
   otps |-> {NoOtp}, ttls |-> {<<>>}, secrets |-> {"S1"},
   maxUsers |-> MaxUsers, maxSessions |-> 1, maxTicks |-> 1,
   maxFails |-> 0, maxCalls |-> Unbounded]

RegInit == InitStore /\ env = RegEnv

RegSpec == RegInit /\ [][Next]_vars

\* ------------------------------------------------------ permission domain
\* The functions of permission.ts, role.ts and user.ts called on their own:
\* a run is one call, with arguments drawn from the sets below, and leaves
\* the call and its result in calc.
Call(fn, args, out) ==
  /\ calc = NoCalc
  /\ calc' = [fn |-> fn, args |-> args, out |-> out]
  /\ UNCHANGED <<users, sessions, now, nextUid, nextSid, proc, calls, env, audit>>

\* Every "<resource>:<action>" and "<resource>:*" of the Permission type.
TypedPermissions ==
  {<<res, act>> : res \in VALID_RESOURCES, act \in VALID_ACTIONS \cup {"*"}}

CallPermissionImplies ==
  \E g \in TypedPermissions, r \in TypedPermissions :
    Call("permissionImplies", <<g, r>>, permissionImplies(g, r))

\* Strings of one to three ':'-separated segments: known and unknown
\* resources and actions, the wildcard, and empty segments.
PermissionStrings ==
  LET first  == VALID_RESOURCES \cup {"db", ""}
      second == VALID_ACTIONS \cup {"*", "fly", ""}
      third  == {"x", "*", ""}
  IN  {<<a>> : a \in first}
        \cup {<<a, b>> : a \in first, b \in second}
        \cup {<<a, b, c>> : a \in first, b \in second, c \in third}

CallIsPermission ==
  \E value \in PermissionStrings :
    Call("isPermission", <<value>>, isPermission(value))

\* The strings the lists of permissions are made of: two catalog entries
\* out of catalog order, wildcards of two resources, and strings that are
\* not permissions.
ListItems ==
  {<<"audit", "read">>, <<"user", "read">>, <<"user", "*">>, <<"role", "*">>,
   <<"user", "fly">>, <<"db", "*">>, <<"user", "read", "x">>}

MaxList == 3

Lists(items, n) == UNION {[1..k -> items] : k \in 0..n}

CallNormalizePermissions ==
  \E perms \in Lists(ListItems, MaxList) :
    Call("normalizePermissions", <<perms>>, normalizePermissions(perms))

RoleNames == {RoleAdmin, RoleAnalyst, RoleSupport, RoleUser, RoleGuest}

MaxExtras == 2

CallCreateRole ==
  \E name \in RoleNames, extras \in Lists(ListItems, MaxExtras) :
    Call("createRole", <<name, extras>>, createRole(name, extras))

\* What mergeRolesPermissions is given: preset roles, a role made by hand
\* with permissions that were never normalized, and lists of strings.
MergeInputs ==
  {createRole(RoleAdmin, <<>>), createRole(RoleSupport, <<>>),
   [name |-> RoleGuest,
    permissions |-> << <<"user", "*">>, <<"user", "fly">>,
                       <<"auth", "login">> >>],
   [items |-> << <<"role", "*">>, <<"audit", "read">>, <<"user", "*">> >>],
   [items |-> << <<"user", "read", "x">>, <<"session", "read">> >>]}

MaxMerged == 3

CallMergeRolesPermissions ==
  \E inputs \in Lists(MergeInputs, MaxMerged) :
    Call("mergeRolesPermissions", <<inputs>>, mergeRolesPermissions(inputs))

\* Role catalogs: none given, an empty one, and one with an entry for a
\* name without preset, an entry for a preset name and a second entry for
\* the first name.
RoleCatalogs ==
  {<<>>, << <<>> >>,
   << << [name |-> RoleGuest, permissions |-> << <<"session", "read">> >>],
         [name |-> RoleUser,
          permissions |-> << <<"role", "*">>, <<"audit", "read">> >>],
         [name |-> RoleGuest, permissions |-> << <<"oauth", "*">> >>] >> >>}

\* A role name that has neither a preset nor a catalog entry.
RoleOther == <<"o", "p", "s">>

MaxRoles == 2

UserGrants ==
  {[roles |-> roles, extraPermissions |-> extras] :
     roles \in Lists({RoleUser, RoleSupport, RoleGuest, RoleOther}, MaxRoles),
     extras \in {<<>>, << <<"audit", "read">> >>,
                 << <<"user", "*">>, <<"mfa", "setup">> >>}}

CallGetEffectivePermissions ==
  \E user \in UserGrants, roleCatalog \in RoleCatalogs :
    Call("getEffectivePermissions", <<user, roleCatalog>>,
         getEffectivePermissions(user, roleCatalog))

\* The users whose permissions are asked about: one role at most.
Callers == {user \in UserGrants : Len(user.roles) <= 1}

\* The permissions a caller requires.
RequiredItems ==
  {<<"user", "read">>, <<"user", "delete">>, <<"audit", "read">>,
   <<"user", "*">>}

MaxRequired == 2

CallUserHasAll ==
  \E user \in Callers, required \in Lists(RequiredItems, MaxRequired),
     roleCatalog \in RoleCatalogs :
    Call("userHasAll", <<user, required, roleCatalog>>,
         userHasAll(user, required, roleCatalog))

CallUserHasAny ==
  \E user \in Callers, required \in Lists(RequiredItems, MaxRequired),
     roleCatalog \in RoleCatalogs :
    Call("userHasAny", <<user, required, roleCatalog>>,
         userHasAny(user, required, roleCatalog))

CallAssertAllPermissions ==
  \E user \in Callers, required \in Lists(RequiredItems, MaxRequired),
     roleCatalog \in RoleCatalogs :
    Call("assertAllPermissions", <<user, required, roleCatalog>>,
         assertAllPermissions(user, required, roleCatalog))

CallAssertAnyPermission ==
  \E user \in Callers, required \in Lists(RequiredItems, MaxRequired),
     roleCatalog \in RoleCatalogs :
    Call("assertAnyPermission", <<user, required, roleCatalog>>,
         assertAnyPermission(user, required, roleCatalog))

PermNext ==
  \/ CallPermissionImplies
  \/ CallIsPermission
  \/ CallNormalizePermissions
  \/ CallCreateRole
  \/ CallMergeRolesPermissions
  \/ CallGetEffectivePermissions
  \/ CallUserHasAll
  \/ CallUserHasAny
  \/ CallAssertAllPermissions
  \/ CallAssertAnyPermission

PermInit == InitStore /\ env = SeqEnv

PermSpec == PermInit /\ [][PermNext]_vars

\* ------------------------------------------------------------ CLI commands
\* auditEvent: one line appended to logs/audit.log.
auditEvent(event) == audit' = Append(audit, event)

\* The audit action of each command.
AuditAction ==
  [login |-> "auth.login", logout |-> "auth.logout", mfaSetup |-> "mfa.setup",
   mfaVerify |-> "mfa.verify", register |-> "user.register"]

\* The rest of a command's action handler once its service call is over: the
\* success branch of the try block or the catch block, up to the end of the
\* command. mfa:verify leaves with process.exit(2) on a false answer, before
\* any auditEvent.
command(p) ==
  LET call == proc[p]
      threw == call.result \notin {"OK", "TRUE", "FALSE"}
  IN  /\ env.cli
      /\ Continue(p, "done")
      /\ proc' = [proc EXCEPT ![p].pc = "exit"]
      /\ UNCHANGED <<users, sessions, now, nextUid, nextSid, env, calc>>
      /\ IF threw
           THEN auditEvent([action |-> AuditAction[call.op], status |-> "fail",
                            reason |-> call.result])
         ELSE IF call.op = "mfaVerify" /\ call.result = "FALSE"
           THEN UNCHANGED audit
         ELSE auditEvent([action |-> AuditAction[call.op], status |-> "success",
                          reason |-> ""])

CliNext == Tick \/ \E p \in Procs : Step(p) \/ command(p)

\* One command at a time, one account, a bounded number of commands.
CliEnv ==
  [procs |-> {1}, observe |-> TRUE, views |-> FALSE,
   emails |-> {EmailA},
   cli |-> TRUE, grants |-> {NoGrant},
   otps |-> {NoOtp, "c1"}, ttls |-> {<<>>}, secrets |-> {"S1"},
   maxUsers |-> 1, maxSessions |-> 1, maxTicks |-> 1,
   maxFails |-> MaxFails, maxCalls |-> MaxCalls]

CliInit == InitStore /\ env = CliEnv

CliSpec == CliInit /\ [][CliNext]_vars

\* ----------------------------------------------------- logins that overlap
\* users.txt as earlier runs left it: the account the logins are for, with
\* some failures counted, a hash of the current or of an earlier cost, MFA on
\* or off, and a second account.
StoredUsers ==
  {<<[createUser(1, EmailA, [hashPassword(PwGood) EXCEPT !.rounds = rounds],
                 <<>>, <<>>)
        EXCEPT !.failedLoginAttempts = fails,
               !.mfaEnabled = mfa,
               !.mfaSecret = IF mfa THEN "S1" ELSE NoSecret],
     createUser(2, EmailB, hashPassword(PwGood), <<>>, <<>>)>> :
     fails \in {0, MAX_FAILED - 2, MAX_FAILED - 1},
     rounds \in {SALT_ROUNDS - 1, SALT_ROUNDS},
     mfa \in BOOLEAN}

\* Two callers, two logins for the first account.
LoginEnv(stored) ==
  [procs |-> Procs, observe |-> TRUE, views |-> FALSE,
   emails |-> {EmailA},
   cli |-> FALSE, grants |-> {NoGrant},
   otps |-> OtpInputs, ttls |-> {<<>>}, secrets |-> {"S1"},
   maxUsers |-> 2, maxSessions |-> 2, maxTicks |-> 1,
   maxFails |-> Unbounded, maxCalls |-> 2,
   stored |-> stored]

LoginInit ==
  /\ users \in StoredUsers
  /\ sessions = <<>>
  /\ now = 0
  /\ nextUid = 3
  /\ nextSid = 1
  /\ proc = [p \in Procs |-> Idle]
  /\ calls = 0
  /\ calc = NoCalc
  /\ audit = <<>>
  /\ env = LoginEnv(users)

LoginNext ==
  \/ Tick
  \/ \E p \in Procs :
        \/ \E e \in env.emails, pw \in LoginPasswords, otp \in env.otps,
              ttl \in env.ttls : loginRead(p, e, pw, otp, ttl)
        \/ loginVerify(p)
        \/ updateUserRead(p)
        \/ updateUserWrite(p)
        \/ loginAppend(p)

LoginSpec == LoginInit /\ [][LoginNext]_vars

\* ------------------------------------------- a store update that throws
\* Two callers over a users.txt that holds one account: a second account is
\* registered and logs in while calls for the first one are in flight.
FaultEnv ==
  [procs |-> Procs, observe |-> TRUE, views |-> FALSE,
   emails |-> {EmailA},
   cli |-> FALSE, grants |-> {NoGrant},
   otps |-> {NoOtp, "c1"}, ttls |-> {<<>>}, secrets |-> {"S1"},
   maxUsers |-> 2, maxSessions |-> 1, maxTicks |-> 1,
   maxFails |-> MaxFails, maxCalls |-> 3]

FaultInit ==
  /\ users = <<createUser(1, EmailB, hashPassword(PwGood), <<>>, <<>>)>>
  /\ sessions = <<>>
  /\ now = 0
  /\ nextUid = 2
  /\ nextSid = 1
  /\ proc = [p \in Procs |-> Idle]
  /\ calls = 0
  /\ calc = NoCalc
  /\ audit = <<>>
  /\ env = FaultEnv

FaultSpec == FaultInit /\ [][Next]_vars

\* ================================================================== claims
LockMs == LOCK_MINUTES * MS_PER_MIN

\* The stored record of the account a call in flight works on.
StoredUser(c) == getUserById(users, c.user.id)

\* Process p begins a call of operation op in this step.
Begins(p, op) == Free(p) /\ proc'[p] # proc[p] /\ proc'[p].op = op

\* Process p's call moves in this step.
Moves(p, op) == ~Free(p) /\ proc[p].op = op /\ proc'[p] # proc[p]

Returns(p, result) == proc'[p].pc = "done" /\ proc'[p].result = result

CodeOk(c, u) == c.otpCode # NoOtp /\ authenticatorVerify(c.otpCode, u.mfaSecret)

NewSessionIds ==
  {sessions'[j].id : j \in DOMAIN sessions'} \
    {sessions[i].id : i \in DOMAIN sessions}

\* C1: on an account whose stored mfaEnabled is true, a login with the right
\* password and no code returns MFA_REQUIRED, one with a code the provider
\* rejects returns MFA_INVALID, neither creates a session, and a session is
\* created only by a login whose code the provider verified against the
\* stored secret.
C1_MfaGate ==
  [][\A p \in Procs :
       LET c == proc[p]
           u == StoredUser(c)
       IN  /\ Moves(p, "login") /\ u.mfaEnabled =>
                /\ c.pc = "l_verify" /\ verifyPassword(c.password, u.passHash)
                     /\ c.otpCode = NoOtp
                     => Returns(p, "MFA_REQUIRED") /\ sessions' = sessions
                /\ c.pc = "l_verify" /\ verifyPassword(c.password, u.passHash)
                     /\ c.otpCode # NoOtp /\ ~CodeOk(c, u)
                     => /\ proc'[p].pending = "MFA_INVALID"
                        /\ proc'[p].pc # "done"
                        /\ sessions' = sessions
                /\ c.pending = "MFA_INVALID"
                     => /\ sessions' = sessions
                        /\ proc'[p].pc # "l_append"
                        /\ proc'[p].pc = "done" => Returns(p, "MFA_INVALID")
                /\ proc'[p].pc = "l_append" \/ c.pc = "l_append" => CodeOk(c, u)
           /\ NewSessionIds # {} =>
                \E q \in Procs : proc[q].op = "login" /\ proc[q].pc = "l_append"
  ]_vars

\* C1 witness: a login with a rejected code has returned MFA_INVALID on an
\* MFA-enabled account and no session exists.
C1_Witness ==
  /\ proc[1].op = "login" /\ proc[1].pc = "done"
  /\ proc[1].result = "MFA_INVALID"
  /\ \E i \in DOMAIN users : users[i].mfaEnabled
  /\ sessions = <<>>

\* C2: counted from failedLoginAttempts = 0, each of five consecutive logins
\* with a wrong password returns INVALID_CREDENTIALS and stores the count one
\* higher; the first four leave lockedUntil at 0 and the fifth stores
\* lockedUntil = the time of that attempt + 15 minutes; a login on the account
\* begun before that time returns ACCOUNT_LOCKED.
C2_FiveFailuresLock ==
  [][\A p \in Procs :
       LET c == proc[p]
           u == StoredUser(c)
           k == u.failedLoginAttempts
       IN  /\ Moves(p, "login") /\ c.pc = "l_verify" /\ k < MAX_FAILED
                /\ ~verifyPassword(c.password, u.passHash)
                => /\ proc'[p].pc = "u_read"
                   /\ proc'[p].pending = "INVALID_CREDENTIALS"
                   /\ proc'[p].user.failedLoginAttempts = k + 1
                   /\ proc'[p].user.lockedUntil =
                        IF k + 1 = MAX_FAILED THEN now + LockMs ELSE 0
           /\ Moves(p, "login") /\ c.pending = "INVALID_CREDENTIALS"
                => /\ sessions' = sessions
                   /\ proc'[p].pc \in {"u_write", "done"}
                   /\ proc'[p].pc = "done"
                        => /\ Returns(p, "INVALID_CREDENTIALS")
                           /\ getUserById(users', c.user.id) = c.user
           /\ Begins(p, "login")
                => LET a == getUserByEmail(users, proc'[p].email)
                   IN  a # NoUser /\ a.failedLoginAttempts = MAX_FAILED
                         /\ now < a.lockedUntil
                         => Returns(p, "ACCOUNT_LOCKED")
  ]_vars

\* C2 witness: the fifth failed login has just returned INVALID_CREDENTIALS
\* and the account is stored with five failures, locked for 15 minutes from
\* now.
C2_Witness ==
  /\ proc[1].op = "login" /\ proc[1].pc = "done"
  /\ proc[1].result = "INVALID_CREDENTIALS"
  /\ \E i \in DOMAIN users :
       /\ users[i].failedLoginAttempts = MAX_FAILED
       /\ users[i].lockedUntil = now + LockMs

\* C3: a login begun while now < lockedUntil of the stored account returns
\* ACCOUNT_LOCKED in its first step, whatever password and code it carries:
\* the call is over before any credential check, and the user store and the
\* session store are as they were.
C3_LockedShortCircuit ==
  [][\A p \in Procs :
       Begins(p, "login")
         => LET a == getUserByEmail(users, proc'[p].email)
            IN  a # NoUser /\ now < a.lockedUntil
                  => /\ Returns(p, "ACCOUNT_LOCKED")
                     /\ users' = users
                     /\ sessions' = sessions
  ]_vars

\* C3 witness: a login has returned ACCOUNT_LOCKED on an account that is
\* stored locked, with its five failures and no session.
C3_Witness ==
  /\ proc[1].op = "login" /\ proc[1].pc = "done"
  /\ proc[1].result = "ACCOUNT_LOCKED"
  /\ LET a == getUserByEmail(users, proc[1].email)
     IN  a # NoUser /\ now < a.lockedUntil
           /\ a.failedLoginAttempts = MAX_FAILED
  /\ sessions = <<>>

\* C4: on an account stored with a lock that has run out (0 < lockedUntil
\* <= now) a login is let through the lockout check; with the right password,
\* and a verified code when MFA is enabled, it goes on to write
\* failedLoginAttempts = 0 and lockedUntil = 0, creates a session for the
\* account and returns OK.
C4_UnlockAfterWindow ==
  [][\A p \in Procs :
       LET c == proc[p]
           u == StoredUser(c)
           expired == u.lockedUntil > 0 /\ now >= u.lockedUntil
       IN  /\ Begins(p, "login")
                => LET a == getUserByEmail(users, proc'[p].email)
                   IN  a # NoUser /\ a.lockedUntil > 0 /\ now >= a.lockedUntil
                         => proc'[p].pc = "l_verify" /\ proc'[p].user = a
           /\ Moves(p, "login") /\ c.pc = "l_verify" /\ expired
                /\ verifyPassword(c.password, u.passHash)
                /\ (u.mfaEnabled => CodeOk(c, u))
                => /\ proc'[p].pc = "u_read" /\ proc'[p].pending = ""
                   /\ proc'[p].user.failedLoginAttempts = 0
                   /\ proc'[p].user.lockedUntil = 0
           /\ Moves(p, "login") /\ c.pc = "u_read" /\ expired /\ c.pending = ""
                => proc'[p].pc = "u_write" /\ proc'[p].user = c.user
           /\ Moves(p, "login") /\ c.pc = "u_write" /\ expired /\ c.pending = ""
                => /\ proc'[p].pc = "l_append"
                   /\ proc'[p].sess.userId = u.id
                   /\ getUserById(users', u.id).failedLoginAttempts = 0
                   /\ getUserById(users', u.id).lockedUntil = 0
           /\ Moves(p, "login") /\ c.pc = "l_append"
                => /\ Returns(p, "OK")
                   /\ sessions' = Append(sessions, c.sess)
                   /\ u.failedLoginAttempts = 0 /\ u.lockedUntil = 0
  ]_vars

\* C4 witness: a login with the right password on an account whose lock has
\* run out has passed the checks and is writing the cleared counters.
C4_Witness ==
  /\ proc[1].op = "login" /\ proc[1].pc = "u_write" /\ proc[1].pending = ""
  /\ LET u == StoredUser(proc[1])
     IN  u.failedLoginAttempts = MAX_FAILED /\ u.lockedUntil > 0
           /\ now >= u.lockedUntil
  /\ proc[1].user.failedLoginAttempts = 0 /\ proc[1].user.lockedUntil = 0

\* C5: under any interleaving of calls, a stored session whose revokedAt is
\* set still has it set after every step, so it is never active again.
C5_RevokedStaysRevoked ==
  [][\A i \in DOMAIN sessions, j \in DOMAIN sessions' :
       sessions'[j].id = sessions[i].id /\ sessions[i].revokedAt # NoTime
         => sessions'[j].revokedAt # NoTime
  ]_vars

\* C6: a store update of one record leaves every other record of the
\* collection as it is in the store when the update is written, so that of
\* two overlapping updates of different records both are in the store when
\* both are complete.
C6_DisjointUpdatesKept ==
  [][\A p \in Procs :
       /\ proc[p].pc = "s_write" /\ proc'[p] # proc[p]
            => \A i \in DOMAIN sessions, j \in DOMAIN sessions' :
                 sessions'[j].id = sessions[i].id
                   /\ sessions[i].id # proc[p].sess.id
                   => sessions'[j] = sessions[i]
       /\ proc[p].pc = "u_write" /\ proc'[p] # proc[p]
            => \A i \in DOMAIN users, j \in DOMAIN users' :
                 users'[j].id = users[i].id /\ users[i].id # proc[p].user.id
                   => users'[j] = users[i]
  ]_vars

\* C7: no two stored user records have the same normalized email, in every
\* reachable state, overlapping register calls included.
C7_UniqueEmail ==
  \A i, j \in DOMAIN users :
    normalizeEmail(users[i].email) = normalizeEmail(users[j].email) => i = j

\* C8: a stored user id is still stored after every step, under any
\* interleaving of calls.
C8_UserNeverRemoved ==
  [][\A i \in DOMAIN users : \E j \in DOMAIN users' : users'[j].id = users[i].id
  ]_vars

\* C9: a logout of an id with no stored session returns SESSION_NOT_FOUND; a
\* logout of a stored session that is revoked or expired (expiresAt <= now)
\* returns SESSION_INACTIVE; each error is returned in no other case, and
\* either way the call is over with the session store as it was.
C9_LogoutErrors ==
  [][\A p \in Procs :
       Begins(p, "logout")
         => LET s == getSessionById(sessions, proc'[p].id)
            IN  /\ s = NoSession
                     => Returns(p, "SESSION_NOT_FOUND") /\ sessions' = sessions
                /\ s # NoSession /\ (s.revokedAt # NoTime \/ s.expiresAt <= now)
                     => Returns(p, "SESSION_INACTIVE") /\ sessions' = sessions
                /\ Returns(p, "SESSION_NOT_FOUND") => s = NoSession
                /\ Returns(p, "SESSION_INACTIVE")
                     => s # NoSession
                          /\ (s.revokedAt # NoTime \/ s.expiresAt <= now)
  ]_vars

\* C9 witness: a logout has returned SESSION_INACTIVE for a stored session
\* that was never revoked and has expired.
C9_Witness ==
  /\ proc[1].op = "logout" /\ proc[1].pc = "done"
  /\ proc[1].result = "SESSION_INACTIVE"
  /\ LET s == getSessionById(sessions, proc[1].id)
     IN  s # NoSession /\ s.revokedAt = NoTime /\ s.expiresAt <= now

\* C10: a logout of an active session takes the stored record with revokedAt
\* set to the current time, writes it in place of the stored one with every
\* other field, every other session and the user store as they were, and
\* returns OK; a logout of a session that is already revoked returns
\* SESSION_INACTIVE.
C10_LogoutRevokes ==
  [][\A p \in Procs :
       LET c == proc[p]
       IN  /\ Begins(p, "logout")
                => LET s == getSessionById(sessions, proc'[p].id)
                   IN  /\ s # NoSession /\ s.revokedAt = NoTime
                            /\ now < s.expiresAt
                            => /\ proc'[p].pc = "s_read"
                               /\ proc'[p].sess = [s EXCEPT !.revokedAt = now]
                               /\ sessions' = sessions /\ users' = users
                       /\ s # NoSession /\ s.revokedAt # NoTime
                            => Returns(p, "SESSION_INACTIVE")
           /\ Moves(p, "logout")
                => /\ users' = users
                   /\ c.pc = "s_read"
                        => /\ proc'[p].pc = "s_write"
                           /\ proc'[p].sess = c.sess
                           /\ sessions' = sessions
                   /\ c.pc = "s_write"
                        => /\ Returns(p, "OK")
                           /\ c.sess.revokedAt # NoTime
                           /\ sessions' =
                                [i \in DOMAIN sessions |->
                                   IF sessions[i].id = c.id
                                     THEN [sessions[i] EXCEPT
                                             !.revokedAt = c.sess.revokedAt]
                                     ELSE sessions[i]]
  ]_vars

\* C10 witness: a logout has returned OK, its session is stored revoked, and
\* another session is stored unrevoked.
C10_Witness ==
  /\ proc[1].op = "logout" /\ proc[1].pc = "done" /\ proc[1].result = "OK"
  /\ getSessionById(sessions, proc[1].id).revokedAt # NoTime
  /\ getSessionById(sessions, proc[1].id).lastUsedAt
       # getSessionById(sessions, proc[1].id).revokedAt
  /\ \E i \in DOMAIN sessions :
       sessions[i].id # proc[1].id /\ sessions[i].revokedAt = NoTime

\* C11: isActive(s, t) is true exactly when s.revokedAt is unset and
\* t < s.expiresAt; a session created with ttlMinutes = 30 at T is active at
\* T + 1 min, inactive at T + 31 min and inactive at t = expiresAt, and a
\* revoked session is inactive before its expiry too.
C11_IsActive ==
  \A i \in DOMAIN sessions :
    LET s == sessions[i]
        T == s.issuedAt
    IN  /\ isActive(s, now) <=> (s.revokedAt = NoTime /\ now < s.expiresAt)
        /\ s.expiresAt = T + 30 * MS_PER_MIN =>
             /\ now = T + MS_PER_MIN /\ s.revokedAt = NoTime => isActive(s, now)
             /\ now = T + 31 * MS_PER_MIN => ~isActive(s, now)
             /\ now = s.expiresAt => ~isActive(s, now)
             /\ s.revokedAt # NoTime => ~isActive(s, now)

\* C11 witness: a 30-minute session revoked a minute after it was created is
\* inactive twenty minutes before its expiry.
C11_Witness ==
  /\ sessions # <<>>
  /\ sessions[1].expiresAt = sessions[1].issuedAt + 30 * MS_PER_MIN
  /\ sessions[1].revokedAt = sessions[1].issuedAt + MS_PER_MIN
  /\ now = sessions[1].issuedAt + 10 * MS_PER_MIN
  /\ ~isActive(sessions[1], now)

\* C12: the session a successful login returns has expiresAt - issuedAt equal
\* to the given ttlMinutes, or to 60 minutes when none is given, has
\* lastUsedAt = issuedAt, is stored without revokedAt, and its public view
\* says isActive = true.
C12_IssuedSession ==
  [][\A p \in Procs :
       Moves(p, "login") /\ Returns(p, "OK")
         => LET c == proc[p]
                v == proc'[p].ret[1].session
                minutes == IF c.ttl = <<>> THEN 60 ELSE c.ttl[1]
            IN  /\ v.expiresAt - v.issuedAt = minutes * MS_PER_MIN
                /\ v.lastUsedAt = v.issuedAt
                /\ getSessionById(sessions', v.id).revokedAt = NoTime
                /\ v.isActive
  ]_vars

\* C13: every stored session has expiresAt > issuedAt, whatever ttlMinutes the
\* login that created it was given.
C13_ExpiresAfterIssued ==
  \A i \in DOMAIN sessions : sessions[i].expiresAt > sessions[i].issuedAt

\* C14 as the spec states it: on an account that has a secret from mfaSetup
\* and has not been verified, a login with the right password and no code
\* returns MFA_REQUIRED.
C14_PendingRequiresCode ==
  [][\A p \in Procs :
       LET c == proc[p]
           u == StoredUser(c)
       IN  Moves(p, "login") /\ c.pc = "l_verify"
             /\ u.mfaSecret # NoSecret /\ ~u.mfaEnabled
             /\ verifyPassword(c.password, u.passHash) /\ c.otpCode = NoOtp
             => Returns(p, "MFA_REQUIRED")
  ]_vars

\* C14 amended: mfaSetup stores the secret with mfaEnabled = false, and on an
\* account stored that way a login with the right password passes the MFA
\* gate without any code and goes on to return OK; MFA_REQUIRED is returned
\* only on an account stored with mfaEnabled = true.
C14_PendingLoginPasses ==
  [][\A p \in Procs :
       LET c == proc[p]
           u == StoredUser(c)
       IN  /\ Moves(p, "mfaSetup") /\ c.pc = "u_write"
                => /\ Returns(p, "OK")
                   /\ getUserById(users', c.id).mfaSecret # NoSecret
                   /\ ~getUserById(users', c.id).mfaEnabled
           /\ Moves(p, "login") /\ c.pc = "l_verify"
                /\ u.mfaSecret # NoSecret /\ ~u.mfaEnabled
                /\ verifyPassword(c.password, u.passHash)
                => proc'[p].pc = "u_read" /\ proc'[p].pending = ""
           /\ Moves(p, "login") /\ c.pending = ""
                /\ c.pc \in {"u_read", "u_write", "l_append"}
                => proc'[p].pc # "done" \/ Returns(p, "OK")
           /\ Moves(p, "login") /\ Returns(p, "MFA_REQUIRED") => u.mfaEnabled
  ]_vars

\* C14 witness: a login has returned OK and created a session on an account
\* stored with a secret and mfaEnabled = false.
C14_Witness ==
  /\ proc[1].op = "login" /\ proc[1].pc = "done" /\ proc[1].result = "OK"
  /\ LET a == getUserByEmail(users, proc[1].email)
     IN  a # NoUser /\ a.mfaSecret # NoSecret /\ ~a.mfaEnabled
  /\ sessions # <<>>

\* C15: with calls run one at a time, a stored mfaEnabled goes from false to
\* true only in the write of an mfaVerify call for that user whose code the
\* provider verifies against the stored secret; a record that register adds
\* has mfaEnabled = false and no secret; mfaSetup stores mfaEnabled = false;
\* no step of a login or a logout changes any stored mfaEnabled or mfaSecret.
C15_EnabledOnlyByVerify ==
  [][/\ \A i \in DOMAIN users, j \in DOMAIN users' :
          users'[j].id = users[i].id /\ ~users[i].mfaEnabled
            /\ users'[j].mfaEnabled
            => \E p \in Procs :
                 /\ proc[p].op = "mfaVerify" /\ proc[p].pc = "u_write"
                 /\ proc[p].id = users[i].id
                 /\ users[i].mfaSecret # NoSecret
                 /\ authenticatorVerify(proc[p].otpCode, users[i].mfaSecret)
                 /\ users'[j].mfaSecret = users[i].mfaSecret
     /\ \A j \in DOMAIN users' :
          (\A i \in DOMAIN users : users[i].id # users'[j].id)
            => ~users'[j].mfaEnabled /\ users'[j].mfaSecret = NoSecret
     /\ \A p \in Procs :
          /\ Moves(p, "mfaSetup") /\ proc[p].pc = "u_write"
               => ~getUserById(users', proc[p].id).mfaEnabled
          /\ Moves(p, "login") \/ Moves(p, "logout")
               \/ Begins(p, "login") \/ Begins(p, "logout")
               => /\ DOMAIN users' = DOMAIN users
                  /\ \A i \in DOMAIN users :
                       /\ users'[i].mfaEnabled = users[i].mfaEnabled
                       /\ users'[i].mfaSecret = users[i].mfaSecret
  ]_vars

\* C15 witness: an mfaVerify call has returned true and the account is
\* stored with mfaEnabled = true.
C15_Witness ==
  /\ proc[1].op = "mfaVerify" /\ proc[1].pc = "done"
  /\ proc[1].result = "TRUE"
  /\ getUserById(users, proc[1].id).mfaEnabled

\* C16: a stored mfaEnabled that is true stays true after every step of every
\* operation, mfaSetup on an MFA-enabled account included.
C16_EnabledStaysEnabled ==
  [][\A i \in DOMAIN users, j \in DOMAIN users' :
       users'[j].id = users[i].id /\ users[i].mfaEnabled
         => users'[j].mfaEnabled
  ]_vars

\* C17: mfaVerify returns USER_NOT_FOUND for an id that is not stored and
\* MFA_NOT_ENABLED for a user without a secret; with a secret it returns false
\* for a code that is not the secret's code; in these three cases the user
\* store is as it was.  For the secret's code it writes the record it read
\* with mfaEnabled = true, every other record as it was, and returns true.
C17_VerifyMfaOutcomes ==
  [][\A p \in Procs :
       LET c == proc[p]
       IN  /\ Begins(p, "mfaVerify")
                => LET u == getUserById(users, proc'[p].id)
                       code == proc'[p].otpCode
                   IN  /\ users' = users
                       /\ u = NoUser => Returns(p, "USER_NOT_FOUND")
                       /\ u # NoUser /\ u.mfaSecret = NoSecret
                            => Returns(p, "MFA_NOT_ENABLED")
                       /\ u # NoUser /\ u.mfaSecret # NoSecret
                            /\ code # TotpOf(u.mfaSecret)
                            => Returns(p, "FALSE")
                       /\ u # NoUser /\ u.mfaSecret # NoSecret
                            /\ code = TotpOf(u.mfaSecret)
                            => /\ proc'[p].pc = "u_read"
                               /\ proc'[p].user = [u EXCEPT !.mfaEnabled = TRUE]
           /\ Moves(p, "mfaVerify") /\ c.pc = "u_read"
                => /\ proc'[p].pc = "u_write" /\ proc'[p].user = c.user
                   /\ users' = users
           /\ Moves(p, "mfaVerify") /\ c.pc = "u_write"
                => /\ Returns(p, "TRUE")
                   /\ users' = [i \in DOMAIN users |->
                                  IF users[i].id = c.id
                                    THEN [users[i] EXCEPT !.mfaEnabled = TRUE]
                                    ELSE users[i]]
  ]_vars

\* C17 witness: an mfaVerify call with a code that is not the stored secret's
\* has returned false and the account is stored with mfaEnabled = false.
C17_Witness ==
  /\ proc[1].op = "mfaVerify" /\ proc[1].pc = "done"
  /\ proc[1].result = "FALSE"
  /\ LET u == getUserById(users, proc[1].id)
     IN  u.mfaSecret # NoSecret /\ proc[1].otpCode # TotpOf(u.mfaSecret)
           /\ ~u.mfaEnabled

\* C18: a login that fails on the password and a login that passes the
\* password and fails on the MFA code both add one to failedLoginAttempts of
\* the account, and either of them sets lockedUntil to now + 15 minutes when
\* it brings the counter to MAX_FAILED; the failure is returned after the
\* record is stored, so the counter a failure finds is the one the failures
\* before it left, whatever their kind.
C18_SharedFailureCounter ==
  [][\A p \in Procs :
       LET c == proc[p]
           u == StoredUser(c)
           k == u.failedLoginAttempts
           badPw   == ~verifyPassword(c.password, u.passHash)
           badCode == /\ verifyPassword(c.password, u.passHash)
                      /\ u.mfaEnabled /\ c.otpCode # NoOtp /\ ~CodeOk(c, u)
       IN  /\ Moves(p, "login") /\ c.pc = "l_verify" /\ (badPw \/ badCode)
                => /\ proc'[p].pc = "u_read"
                   /\ proc'[p].pending = IF badPw THEN "INVALID_CREDENTIALS"
                                                  ELSE "MFA_INVALID"
                   /\ proc'[p].user.failedLoginAttempts = k + 1
                   /\ proc'[p].user.lockedUntil =
                        IF k + 1 >= MAX_FAILED THEN now + LockMs
                                               ELSE u.lockedUntil
           /\ Moves(p, "login") /\ c.pc = "u_write"
                /\ c.pending \in {"INVALID_CREDENTIALS", "MFA_INVALID"}
                => /\ Returns(p, c.pending)
                   /\ getUserById(users', c.user.id) = c.user
                   /\ sessions' = sessions
  ]_vars

\* C18 witness: a login with the right password and a rejected code has just
\* returned MFA_INVALID as the failure that brought the counter to MAX_FAILED,
\* and the account is stored locked for 15 minutes from now.
C18_Witness ==
  /\ proc[1].op = "login" /\ proc[1].pc = "done"
  /\ proc[1].result = "MFA_INVALID"
  /\ \E i \in DOMAIN users :
       /\ users[i].mfaEnabled
       /\ users[i].failedLoginAttempts = MAX_FAILED
       /\ users[i].lockedUntil = now + LockMs

\* C19: register returns INVALID_EMAIL when the normalized email is malformed;
\* otherwise WEAK_PASSWORD when the password fails the strength policy;
\* otherwise EMAIL_TAKEN when the normalized email is stored; the first of
\* the three that applies is the one returned, and in each of these cases the
\* user store is as it was.  With none of them the call goes on to addUser.
C19_RegisterErrors ==
  [][\A p \in Procs :
       Begins(p, "register")
         => LET bad   == ~isValidEmail(proc'[p].email)
                weak  == ~validatePasswordStrength(proc'[p].password)
                taken == \E i \in DOMAIN users : users[i].email = proc'[p].email
            IN  /\ bad => Returns(p, "INVALID_EMAIL")
                /\ ~bad /\ weak => Returns(p, "WEAK_PASSWORD")
                /\ ~bad /\ ~weak /\ taken => Returns(p, "EMAIL_TAKEN")
                /\ bad \/ weak \/ taken => users' = users
                /\ ~bad /\ ~weak /\ ~taken => proc'[p].pc = "r_check"
  ]_vars

\* C19 witness: a register call with a stored email and a weak password has
\* returned WEAK_PASSWORD, the earlier of the two errors that apply.
C19_Witness ==
  /\ proc[1].op = "register" /\ proc[1].pc = "done"
  /\ proc[1].result = "WEAK_PASSWORD"
  /\ ~validatePasswordStrength(proc[1].password)
  /\ \E i \in DOMAIN users : users[i].email = proc[1].email

\* C20: the step that completes a register appends one record to the user
\* store, the record having failedLoginAttempts = 0, lockedUntil = 0,
\* mfaEnabled = false and no MFA secret, and leaves every record that was
\* stored as it was; the call returns a view of that record without password
\* hash, MFA secret or recovery codes, whose permissions are, once each, the
\* valid permissions of the presets of the record's roles and of its extra
\* permissions.
C20_RegisterAppends ==
  [][\A p \in Procs :
       Moves(p, "register") /\ Returns(p, "OK")
         => LET new  == users'[Len(users')]
                view == proc'[p].ret[1].user
                granted ==
                  UNION {{ROLE_PRESETS(new.roles[i])[j] :
                            j \in DOMAIN ROLE_PRESETS(new.roles[i])} :
                           i \in {k \in DOMAIN new.roles :
                                    isRoleName(new.roles[k])}}
                  \cup {new.extraPermissions[i] :
                          i \in DOMAIN new.extraPermissions}
            IN  /\ Len(users') = Len(users) + 1
                /\ \A i \in DOMAIN users : users'[i] = users[i]
                /\ new.email = proc'[p].email
                /\ \A i \in DOMAIN users : users[i].id # new.id
                /\ new.failedLoginAttempts = 0 /\ new.lockedUntil = 0
                /\ ~new.mfaEnabled /\ new.mfaSecret = NoSecret
                /\ DOMAIN view \cap {"passHash", "salt", "mfaSecret",
                                     "recoveryCodes"} = {}
                /\ view.id = new.id /\ view.email = new.email
                /\ view.roles = new.roles /\ view.mfaEnabled = FALSE
                /\ {view.permissions[i] : i \in DOMAIN view.permissions}
                     = {x \in granted : isPermission(x)}
                /\ \A i, j \in DOMAIN view.permissions :
                     view.permissions[i] = view.permissions[j] => i = j
  ]_vars

\* C20 witness: a second account has just been registered with two preset
\* roles given twice and with padding, a role without preset, and extra
\* permissions some of which are not valid; the view returned lists a
\* wildcard of the admin preset, a permission of the support preset and a
\* valid extra permission.
C20_Witness ==
  /\ proc[1].op = "register" /\ proc[1].pc = "done" /\ proc[1].result = "OK"
  /\ Len(users) = 2
  /\ users[2].email = proc[1].email
  /\ users[2].roles = <<RoleAdmin, RoleGuest, RoleSupport>>
  /\ LET perms == proc[1].ret[1].user.permissions
         has(x) == \E i \in DOMAIN perms : perms[i] = x
     IN  /\ has(<<"user", "*">>) /\ has(<<"user", "list">>)
         /\ has(<<"session", "*">>) /\ ~has(<<"user", "fly">>)

\* C21: login reports the first that applies of USER_NOT_FOUND (no stored
\* user for the normalized email), ACCOUNT_LOCKED (now < lockedUntil),
\* INVALID_CREDENTIALS (wrong password, whatever the code; one failure is
\* counted), MFA_REQUIRED (MFA enabled and no code), MFA_INVALID (MFA enabled
\* and a rejected code); a login for an email without a stored user leaves
\* the user store and the session store as they were.
C21_LoginErrorOrder ==
  [][\A p \in Procs :
       LET c == proc[p]
           u == StoredUser(c)
           pwOk == verifyPassword(c.password, u.passHash)
       IN  /\ Begins(p, "login")
                => LET a == getUserByEmail(users, proc'[p].email)
                   IN  /\ a = NoUser
                            => /\ Returns(p, "USER_NOT_FOUND")
                               /\ users' = users /\ sessions' = sessions
                       /\ a # NoUser /\ a.lockedUntil > 0 /\ now < a.lockedUntil
                            => Returns(p, "ACCOUNT_LOCKED")
                       /\ a # NoUser /\ ~(a.lockedUntil > 0 /\ now < a.lockedUntil)
                            => proc'[p].pc = "l_verify" /\ proc'[p].user = a
           /\ Moves(p, "login") /\ c.pc = "l_verify" /\ ~pwOk
                => /\ proc'[p].pending = "INVALID_CREDENTIALS"
                   /\ proc'[p].user.failedLoginAttempts
                        = u.failedLoginAttempts + 1
           /\ Moves(p, "login") /\ c.pc = "l_verify" /\ pwOk
                /\ u.mfaEnabled /\ c.otpCode = NoOtp
                => Returns(p, "MFA_REQUIRED") /\ users' = users
           /\ Moves(p, "login") /\ c.pc = "l_verify" /\ pwOk
                /\ u.mfaEnabled /\ c.otpCode # NoOtp /\ ~CodeOk(c, u)
                => proc'[p].pending = "MFA_INVALID"
           /\ Moves(p, "login") /\ c.pc = "l_verify" /\ pwOk
                /\ (u.mfaEnabled => CodeOk(c, u))
                => proc'[p].pc = "u_read" /\ proc'[p].pending = ""
  ]_vars

\* C21 witness: a login with a wrong password and no code, on an account
\* with MFA enabled, is on its way to INVALID_CREDENTIALS with one more
\* failure counted than is stored.
C21_Witness ==
  /\ proc[1].op = "login" /\ proc[1].pc = "u_read"
  /\ proc[1].pending = "INVALID_CREDENTIALS" /\ proc[1].otpCode = NoOtp
  /\ LET u == getUserById(users, proc[1].user.id)
     IN  /\ u.mfaEnabled /\ ~verifyPassword(proc[1].password, u.passHash)
         /\ proc[1].user.failedLoginAttempts = u.failedLoginAttempts + 1

\* C22 as stated: in every reachable state each stored user's lockedUntil is
\* 0 or greater than now.
C22_LockedUntilFuture ==
  \A i \in DOMAIN users :
    users[i].lockedUntil = 0 \/ users[i].lockedUntil > now

\* C22 amended: the step of login that decides the outcome gives the record
\* it will write a lockedUntil that is the one it read, 0, or a time after
\* now; a stored lockedUntil changes only to the value a call in flight
\* decided on; a record is created with lockedUntil = 0; and the passing of
\* time changes no stored lockedUntil.
C22_LockWrittenInFuture ==
  [][/\ \A p \in Procs :
          Moves(p, "login") /\ proc[p].pc = "l_verify"
            /\ proc'[p].user.lockedUntil # proc[p].user.lockedUntil
            => \/ proc'[p].user.lockedUntil = 0
               \/ proc'[p].user.lockedUntil > now
     /\ \A i \in DOMAIN users' :
          IF i \in DOMAIN users /\ users'[i].id = users[i].id
            THEN users'[i].lockedUntil # users[i].lockedUntil
                   => \E p \in Procs :
                        /\ proc[p].pc = "u_write"
                        /\ proc[p].user.id = users[i].id
                        /\ users'[i].lockedUntil = proc[p].user.lockedUntil
            ELSE users'[i].lockedUntil = 0
     /\ now' # now => users' = users
  ]_vars

\* C22 witness: a lock that ended is still stored, and a login that passed
\* its checks is about to write the record back with lockedUntil = 0.
C22_Witness ==
  /\ proc[1].op = "login" /\ proc[1].pc = "u_write" /\ proc[1].pending = ""
  /\ proc[1].user.lockedUntil = 0
  /\ LET u == getUserById(users, proc[1].user.id)
     IN  u.lockedUntil > 0 /\ u.lockedUntil <= now

\* C23: for permissions g and r over the fixed resources and actions,
\* permissionImplies(g, r) is true exactly when g and r have the same
\* resource and the action of g is "*" or the action of r; so it is true of
\* (p, p), true of ("res:*", "res:action"), and false across resources.
C23_Implies ==
  calc.fn = "permissionImplies"
    => LET g == calc.args[1]
           r == calc.args[2]
       IN  /\ calc.out = (g[1] = r[1] /\ (g[2] = "*" \/ g[2] = r[2]))
           /\ g = r => calc.out
           /\ g[1] = r[1] /\ g[2] = "*" => calc.out
           /\ g[1] # r[1] => ~calc.out

\* C23 witness: permissionImplies("user:*", "user:read") has returned true.
C23_Witness ==
  /\ calc.fn = "permissionImplies"
  /\ calc.args = << <<"user", "*">>, <<"user", "read">> >>
  /\ calc.out = TRUE

\* C24: isPermission(s) is true exactly when s is an entry of PERMISSIONS or
\* "<resource>:*" for one of the seven resources; a string with further
\* segments after a valid pair is rejected like every other string.
C24_IsPermissionExact ==
  calc.fn = "isPermission"
    => LET value == calc.args[1]
       IN  calc.out = \/ value \in ALL_PERMISSIONS_SET
                      \/ /\ Len(value) = 2
                         /\ value[1] \in VALID_RESOURCES
                         /\ value[2] = "*"

\* The lists that hold the elements of list s in another order.
PermutationsOf(s) ==
  {[i \in DOMAIN s |-> s[f[i]]] :
     f \in {g \in [DOMAIN s -> DOMAIN s] :
              \A i, j \in DOMAIN s : g[i] = g[j] => i = j}}

\* C25: normalizePermissions gives the same sequence for a list and for
\* every permutation of it, lists with wildcards of several resources
\* included.
C25_NormalizeOrderIndependent ==
  calc.fn = "normalizePermissions"
    => \A y \in PermutationsOf(calc.args[1]) :
         normalizePermissions(y) = calc.out

\* C26: normalizePermissions applied to its own result gives that result,
\* for every list of strings.
C26_NormalizeIdempotent ==
  calc.fn = "normalizePermissions"
    => normalizePermissions(calc.out) = calc.out

\* C26 witness: normalizePermissions was given a list with a repeated
\* catalog entry, a string that is no permission and two wildcards, and
\* returned the entry once followed by the wildcards.
C26_Witness ==
  /\ calc.fn = "normalizePermissions"
  /\ calc.args[1] = << <<"role", "*">>, <<"user", "*">>, <<"user", "fly">> >>
  /\ calc.out = << <<"role", "*">>, <<"user", "*">> >>

\* A valid permission in the words of the specification: an entry of the
\* catalog, or "<resource>:*" for one of the fixed resources.
ValidPermission(x) ==
  \/ x \in ALL_PERMISSIONS_SET
  \/ Len(x) = 2 /\ x[1] \in VALID_RESOURCES /\ x[2] = "*"

IsWildcard(x) == Len(x) = 2 /\ x[2] = "*"

CatalogIndex(x) == CHOOSE i \in DOMAIN PERMISSIONS : PERMISSIONS[i] = x

\* The list of permissions the last call returned, for the calls that
\* return one.
ReturnedPermissions ==
  IF calc.fn \in {"normalizePermissions", "mergeRolesPermissions",
                  "getEffectivePermissions"}
    THEN calc.out
  ELSE IF calc.fn = "createRole" THEN calc.out.permissions
  ELSE <<>>

\* C27: a list returned by normalizePermissions, createRole,
\* mergeRolesPermissions or getEffectivePermissions holds valid permissions
\* only, each once, the permissions that are not wildcards first, by
\* strictly increasing index in PERMISSIONS, and the wildcards after them.
C27_NormalizedShape ==
  LET out == ReturnedPermissions
  IN  /\ \A i \in DOMAIN out : ValidPermission(out[i])
      /\ \A i, j \in DOMAIN out : out[i] = out[j] => i = j
      /\ \A i, j \in DOMAIN out :
           i < j => IF IsWildcard(out[i]) THEN IsWildcard(out[j])
                    ELSE \/ IsWildcard(out[j])
                         \/ /\ out[i] \in ALL_PERMISSIONS_SET
                            /\ out[j] \in ALL_PERMISSIONS_SET
                            /\ CatalogIndex(out[i]) < CatalogIndex(out[j])

Elements(s) == {s[i] : i \in DOMAIN s}

\* C28: createRole gives, as a set, the permissions of the preset of the
\* name (none for a name without preset) and the valid extra permissions,
\* nothing else; mergeRolesPermissions gives, as a set and each once, the
\* valid permissions of the roles and lists it was given.
C28_RoleUnion ==
  /\ calc.fn = "createRole"
       => LET name   == calc.args[1]
              extras == calc.args[2]
              preset == IF isRoleName(name) THEN Elements(ROLE_PRESETS(name))
                                            ELSE {}
          IN  Elements(calc.out.permissions)
                = {x \in preset \cup Elements(extras) : ValidPermission(x)}
  /\ calc.fn = "mergeRolesPermissions"
       => LET inputs == calc.args[1]
              given  == UNION {IF isRole(inputs[i])
                                 THEN Elements(inputs[i].permissions)
                                 ELSE Elements(inputs[i].items) :
                               i \in DOMAIN inputs}
          IN  /\ Elements(calc.out) = {x \in given : ValidPermission(x)}
              /\ \A i, j \in DOMAIN calc.out :
                   calc.out[i] = calc.out[j] => i = j

\* C29: getEffectivePermissions(user, catalog) is the normalized list of,
\* for each role name of the user, the permissions of the catalog entry of
\* that name if the catalog has one, else of the preset of that name if
\* there is one, else nothing, followed by the user's extra permissions; a
\* name with neither grants nothing, and with no catalog or an empty one
\* the names are resolved through the presets only.
C29_EffectivePermissions ==
  calc.fn = "getEffectivePermissions"
    => LET user    == calc.args[1]
           catalog == IF calc.args[2] = <<>> THEN <<>> ELSE calc.args[2][1]
           entries(name) == {k \in DOMAIN catalog : catalog[k].name = name}
           resolved(name) ==
             IF entries(name) # {}
               THEN catalog[CHOOSE k \in entries(name) :
                              \A j \in entries(name) : k <= j].permissions
             ELSE IF isRoleName(name) THEN ROLE_PRESETS(name)
             ELSE <<>>
       IN  /\ calc.out = normalizePermissions(
                           concat([i \in DOMAIN user.roles |->
                                     resolved(user.roles[i])])
                           \o user.extraPermissions)
           /\ (\A i \in DOMAIN user.roles :
                 entries(user.roles[i]) = {} /\ ~isRoleName(user.roles[i]))
                => calc.out = normalizePermissions(user.extraPermissions)

\* C29 witness: with a catalog that has an entry for "user" and none for
\* "support", a user with both roles got the permissions of the entry
\* ("role:*") and of the support preset ("user:list"), and not those of the
\* user preset ("mfa:setup").
C29_Witness ==
  /\ calc.fn = "getEffectivePermissions"
  /\ calc.args[1].roles = <<RoleUser, RoleSupport>>
  /\ calc.args[2] # <<>> /\ calc.args[2][1] # <<>>
  /\ LET has(x) == \E i \in DOMAIN calc.out : calc.out[i] = x
     IN  has(<<"role", "*">>) /\ has(<<"user", "list">>)
           /\ ~has(<<"mfa", "setup">>)

\* Required permission r is implied by some permission of the effective set
\* of the user of the last call.
Covered(r) ==
  \E g \in Elements(getEffectivePermissions(calc.args[1], calc.args[3])) :
    g[1] = r[1] /\ (g[2] = "*" \/ g[2] = r[2])

\* C30: userHasAll is true exactly when every required permission is
\* implied by some permission of the user's effective set, userHasAny
\* exactly when one is (true and false for an empty list); the assertions
\* throw exactly when their predicate is false and return nothing otherwise.
C30_UserHas ==
  LET required == calc.args[2]
      all == \A i \in DOMAIN required : Covered(required[i])
      any == \E i \in DOMAIN required : Covered(required[i])
  IN  /\ calc.fn = "userHasAll" => calc.out = all
      /\ calc.fn = "userHasAny" => calc.out = any
      /\ calc.fn = "assertAllPermissions"
           => calc.out.threw = ~all /\ (all => calc.out = NoError)
      /\ calc.fn = "assertAnyPermission"
           => calc.out.threw = ~any /\ (any => calc.out = NoError)
      /\ calc.fn \in {"userHasAll", "assertAllPermissions"} /\ required = <<>>
           => all
      /\ calc.fn \in {"userHasAny", "assertAnyPermission"} /\ required = <<>>
           => ~any

\* C30 witness: assertAllPermissions threw for a user whose effective set
\* implies one of the two required permissions and not the other, for whom
\* userHasAny of the same list is true.
C30_Witness ==
  /\ calc.fn = "assertAllPermissions" /\ calc.out.threw
  /\ Len(calc.args[2]) = 2
  /\ Covered(calc.args[2][1]) /\ ~Covered(calc.args[2][2])
  /\ userHasAny(calc.args[1], calc.args[2], calc.args[3])

\* C31: the error assertAllPermissions throws lists the required permissions
\* that no permission of the user's effective set implies, in the order
\* required, and none of those that one implies.
C31_MissingList ==
  calc.fn = "assertAllPermissions" /\ calc.out.threw
    => LET required == calc.args[2]
           missing(r) == ~Covered(r)
       IN  calc.out.list = SelectSeq(required, missing)

\* C32: every invocation of the register, login, logout, mfaSetup and mfaVerify
\* commands emits exactly one audit fact after the operation finishes, for
\* every outcome (success, each domain error, mfaVerify answering false), with
\* status 'success' only when the operation achieved its effect and 'fail'
\* otherwise; nothing else writes to the audit log.
C32_OneAuditFactPerCommand ==
  [][\A p \in Procs :
       LET c == proc[p]
           achieved == c.result \in {"OK", "TRUE"}
       IN  IF c.pc = "done" /\ proc'[p].pc = "exit"
             THEN /\ Len(audit') = Len(audit) + 1
                  /\ SubSeq(audit', 1, Len(audit)) = audit
                  /\ audit'[Len(audit')].action = AuditAction[c.op]
                  /\ audit'[Len(audit')].status =
                       (IF achieved THEN "success" ELSE "fail")
             ELSE proc'[p] # proc[p] => audit' = audit]_vars

FailedLogin == {"INVALID_CREDENTIALS", "MFA_INVALID"}

\* C33: when two failed logins for one account race, the record stored after
\* both is the full snapshot of the later writer; failedLoginAttempts ends at
\* the value before the two plus one or plus two (an increment may be lost),
\* never at another value; no field of another user's record changes.
C33_FailedLoginRace ==
  [][\A p \in Procs :
       Moves(p, "login") /\ proc[p].pc = "u_write" /\ proc[p].pending \in FailedLogin
         => /\ users'[1] = proc[p].user
            /\ users'[2] = users[2]
            /\ users'[2] = env.stored[2]
            /\ \A q \in Procs \ {p} :
                  proc[q].pc = "done" /\ proc[q].result \in FailedLogin
                    => users'[1].failedLoginAttempts
                         \in {env.stored[1].failedLoginAttempts + 1,
                              env.stored[1].failedLoginAttempts + 2}]_vars

\* Both failed logins are over and one increment is lost: both read the
\* record before either wrote it.
C33_Witness ==
  /\ \A p \in Procs : proc[p].pc = "done" /\ proc[p].result \in FailedLogin
  /\ users[1].failedLoginAttempts = env.stored[1].failedLoginAttempts + 1
  /\ users[2] = env.stored[2]

\* C34: when the store update of the failed-attempt bump throws during a login
\* that failed on a bad password or a bad MFA code, the caller still gets
\* INVALID_CREDENTIALS or MFA_INVALID respectively, never the store's error.
C34_AuthErrorSurfaced ==
  [][\A p \in Procs :
       Moves(p, "login") /\ proc[p].pending \in FailedLogin /\ proc'[p].pc = "done"
         => proc'[p].result = proc[p].pending]_vars

\* C35: a login that passed the password check on a stored hash of an outdated
\* cost leaves a hash of the current policy stored by the time it returns,
\* whatever the MFA step decides, and returns what the MFA step decides: the
\* re-hash adds no failure.
C35_RehashWrittenThrough ==
  [][\A p \in Procs :
       LET c == proc[p]
       IN  /\ Moves(p, "login")
           /\ proc'[p].pc = "done"
           /\ c.user # NoUser
           /\ verifyPassword(c.password, c.user.passHash)
           => /\ ~needsRehash(getUserById(users', c.user.id).passHash)
              /\ proc'[p].result \in {"OK", "MFA_REQUIRED", "MFA_INVALID"}]_vars

\* C36: an unlocked account becomes locked only after at least five failed
\* attempts made since it was last unlocked: once a lock window has elapsed
\* (0 < lockedUntil <= now), one further failed login does not by itself lock
\* the account again.
C36_NoRelockAfterExpiry ==
  [][\A p \in Procs :
       LET u == proc[p].user
       IN  /\ Moves(p, "login")
           /\ proc[p].pc = "l_verify"
           /\ u.lockedUntil > 0 /\ now >= u.lockedUntil
           /\ proc'[p].pending \in FailedLogin
           => ~isLocked(proc'[p].user, now)]_vars

\* C37: while now < lockedUntil for an account, no step of any orchestrator
\* operation, in any interleaving of their store reads and writes, lowers or
\* clears the account's stored lockedUntil or failedLoginAttempts: a lock ends
\* only by time passing.
C37_LockOnlyEndsByTime ==
  [][\A i \in DOMAIN users :
       isLocked(users[i], now)
         => LET after == getUserById(users', users[i].id)
            IN  /\ after.lockedUntil >= users[i].lockedUntil
                /\ after.failedLoginAttempts >= users[i].failedLoginAttempts]_vars

Acts(p, op) == Begins(p, op) \/ Moves(p, op)

\* C38: the session store gains a record only when a login succeeds: the step
\* in which a login returns OK appends exactly one session, with a fresh id
\* and the userId of the account the login was for, and leaves the stored
\* sessions as they were; every other step of a login, every step of
\* register, mfaSetup and mfaVerify, and every call that ends in an error
\* leave the session records unchanged; a logout adds none.
C38_SessionsOnlyByLogin ==
  [][\A p \in Procs :
       LET c == proc[p]
       IN  /\ Acts(p, "login")
                => IF Moves(p, "login") /\ Returns(p, "OK")
                     THEN /\ sessions' = Append(sessions, c.sess)
                          /\ c.sess.userId = getUserByEmail(users, c.email).id
                          /\ c.sess.userId = c.user.id
                          /\ \A i \in DOMAIN sessions : sessions[i].id # c.sess.id
                     ELSE sessions' = sessions
           /\ \A op \in {"register", "mfaSetup", "mfaVerify"} :
                 Acts(p, op) => sessions' = sessions
           /\ Acts(p, "logout")
                => /\ Len(sessions') = Len(sessions)
                   /\ ~Returns(p, "OK") => sessions' = sessions
           /\ proc'[p] # c /\ proc'[p].pc = "done"
                /\ proc'[p].result \notin {"OK", "TRUE", "FALSE"}
                => sessions' = sessions]_vars

\* A second login has succeeded: two sessions of the account are stored.
C38_Witness ==
  /\ \E p \in Procs :
        proc[p].pc = "done" /\ proc[p].op = "login" /\ proc[p].result = "OK"
  /\ Len(sessions) = 2
  /\ \A i \in DOMAIN sessions : sessions[i].userId = users[1].id

\* C39: a login that fails with MFA_REQUIRED (right password, MFA enabled, no
\* code) leaves the stored user record unchanged (failedLoginAttempts neither
\* incremented nor reset, lockedUntil unchanged) and creates no session, so
\* such attempts among failures do not break a run of consecutive failures.
C39_MfaRequiredWritesNothing ==
  [][\A p \in Procs :
       LET c == proc[p]
       IN  /\ Begins(p, "login") => users' = users /\ sessions' = sessions
           /\ Acts(p, "login") /\ Returns(p, "MFA_REQUIRED")
                => /\ c.pc = "l_verify"
                   /\ verifyPassword(c.password, c.user.passHash)
                   /\ c.user.mfaEnabled /\ c.otpCode = NoOtp
                   /\ users' = users
                   /\ sessions' = sessions /\ nextSid' = nextSid]_vars

\* MFA_REQUIRED has been returned on an account with two failures counted.
C39_Witness ==
  /\ \E p \in Procs :
        proc[p].pc = "done" /\ proc[p].op = "login"
          /\ proc[p].result = "MFA_REQUIRED"
  /\ Len(users) = 1 /\ users[1].failedLoginAttempts = 2
  /\ sessions = <<>>

\* C40: no step of mfaSetup or mfaVerify changes a stored user's
\* failedLoginAttempts, lockedUntil, password hash, roles or extraPermissions,
\* or adds or removes a user: a code that mfaVerify rejects is not counted as
\* a failed attempt, so wrong mfaVerify codes never lock the account.
C40_MfaFrame ==
  [][\A p \in Procs :
       Acts(p, "mfaSetup") \/ Acts(p, "mfaVerify")
         => /\ Len(users') = Len(users)
            /\ \A i \in DOMAIN users :
                  /\ users'[i].id = users[i].id
                  /\ users'[i].failedLoginAttempts = users[i].failedLoginAttempts
                  /\ users'[i].lockedUntil = users[i].lockedUntil
                  /\ users'[i].passHash = users[i].passHash
                  /\ users'[i].roles = users[i].roles
                  /\ users'[i].extraPermissions = users[i].extraPermissions
            /\ Returns(p, "FALSE") => users' = users]_vars

\* mfaVerify has rejected a code on an account one failure away from the
\* lock, and the account is as it was.
C40_Witness ==
  /\ \E p \in Procs :
        proc[p].pc = "done" /\ proc[p].op = "mfaVerify"
          /\ proc[p].result = "FALSE"
  /\ Len(users) = 1
  /\ users[1].failedLoginAttempts = MAX_FAILED - 1
  /\ users[1].lockedUntil = 0

====
